---- MODULE Spec2Model ----
(***************************************************************************)
(* A model of the URL shortener: the Base62 codec (internal/shortener/     *)
(* base62.go), the read-through repository (internal/shortener/            *)
(* repository.go) and the lookup service (service.go).                     *)
(*                                                                         *)
(* Strings that the codec reads or writes are sequences of runes (Unicode  *)
(* code points); a uint64 is kept at its width as four 16-bit limbs, most  *)
(* significant first, so that every intermediate value fits TLC's integers.*)
(***************************************************************************)
EXTENDS Integers, Sequences, FiniteSets, TLC

VARIABLES
    db,        \* the urls table: id -> original_url
    nextId,    \* the next value of the table's BIGSERIAL sequence
    redisOn,   \* whether r.redis is non-nil
    cache,     \* Redis: key -> [val, exp], exp the hour the entry expires
    now,       \* the clock, in hours
    calls,     \* each caller's call in flight, with what it did so far
    codec      \* a codec computation on its own: Encode, Decode

vars == <<db, nextId, redisOn, cache, now, calls, codec>>

(***************************************************************************)
(* Bounds of the model.                                                    *)
(***************************************************************************)
\* Rows the store may come to hold.
MaxRecords == 2
\* Hours the clock advances at a time, and the last hour it reaches.
TickHours == 12
MaxTime == 24
\* Longest short code (in runes) handed to Redirect.
MaxCodeLen == 2
\* Longest string (in runes) handed to Decode on its own.
MaxDecodeLen == 3
\* Leading '0' symbols put in front of a string handed to Decode.
MaxPad == 3

(***************************************************************************)
(* uint64 arithmetic.                                                      *)
(***************************************************************************)
LimbBase == 2^16

\* The uint64 zero value (var id uint64).
Zero == <<0, 0, 0, 0>>

\* The largest uint64, 2^64 - 1.
MaxUint64 == <<LimbBase - 1, LimbBase - 1, LimbBase - 1, LimbBase - 1>>

\* uint64(n) for a small natural n.
FromNat(n) == <<0, 0, n \div LimbBase, n % LimbBase>>

\* id*m + a stopping at the largest uint64 instead of wrapping.
MulAdd_Saturating(id, m, a) ==
    LET t4 == id[4] * m + a
        t3 == id[3] * m + (t4 \div LimbBase)
        t2 == id[2] * m + (t3 \div LimbBase)
        t1 == id[1] * m + (t2 \div LimbBase)
    IN  IF t1 >= LimbBase
        THEN <<LimbBase - 1, LimbBase - 1, LimbBase - 1, LimbBase - 1>>
        ELSE <<t1, t2 % LimbBase, t3 % LimbBase, t4 % LimbBase>>

\* id*m + a in uint64 arithmetic: the carry out of the top limb is dropped.
MulAdd(id, m, a) ==
    LET t4 == id[4] * m + a
        t3 == id[3] * m + (t4 \div LimbBase)
        t2 == id[2] * m + (t3 \div LimbBase)
        t1 == id[1] * m + (t2 \div LimbBase)
    IN  <<t1 % LimbBase, t2 % LimbBase, t3 % LimbBase, t4 % LimbBase>>

\* id / m and id % m for uint64 id and a small divisor m (long division).
DivMod(id, m) ==
    LET c1 == id[1]
        c2 == (c1 % m) * LimbBase + id[2]
        c3 == (c2 % m) * LimbBase + id[3]
        c4 == (c3 % m) * LimbBase + id[4]
    IN  [quot |-> <<c1 \div m, c2 \div m, c3 \div m, c4 \div m>>, rem |-> c4 % m]

(***************************************************************************)
(* base62.go                                                               *)
(***************************************************************************)
\* "0123456789abcdefghijklmnopqrstuvwxyzABCDEFGHIJKLMNOPQRSTUVWXYZ" as runes.
alphabet ==
    [i \in 1..62 |-> IF i <= 10 THEN 47 + i ELSE IF i <= 36 THEN 86 + i ELSE 28 + i]

base == Len(alphabet)

\* The nil error.
Nil == <<>>

\* strings.IndexRune(alphabet, char): the 0-based index of char, or -1.
IndexRune(s, char) ==
    IF \E j \in 1..Len(s) : s[j] = char
    THEN (CHOOSE j \in 1..Len(s) : s[j] = char /\ \A k \in 1..(j - 1) : s[k] # char) - 1
    ELSE -1

\* The bytes a rune takes in a Go string (UTF-8); range advances by it.
RuneLen(r) == IF r < 128 THEN 1 ELSE IF r < 2048 THEN 2 ELSE IF r < 65536 THEN 3 ELSE 4

Reverse(s) == [i \in 1..Len(s) |-> s[Len(s) + 1 - i]]

\* The for id > 0 loop of Encode: sb collects the digits, least significant first.
RECURSIVE EncodeLoop(_, _)
EncodeLoop(id, sb) ==
    IF id = Zero
    THEN sb
    ELSE LET dm == DivMod(id, base)
         IN  EncodeLoop(dm.quot, Append(sb, alphabet[dm.rem + 1]))

\* Encode without the reversal of the digits.
Encode_NoReverse(id) ==
    IF id = Zero
    THEN <<alphabet[1]>>
    ELSE EncodeLoop(id, <<>>)

\* Encode without its id == 0 case.
Encode_NoZeroCase(id) == Reverse(EncodeLoop(id, <<>>))

Encode(id) ==
    IF id = Zero
    THEN <<alphabet[1]>>
    ELSE Reverse(EncodeLoop(id, <<>>))

\* The error with a 1-based position.
InvalidCharacter_OneBased(char, i) ==
    <<[msg |-> "invalid character '%c' at position %d in base62 string",
       args |-> <<char, i + 1>>]>>

\* fmt.Errorf("invalid character '%c' at position %d in base62 string", char, i)
InvalidCharacter(char, i) ==
    <<[msg |-> "invalid character '%c' at position %d in base62 string",
       args |-> <<char, i>>]>>

\* The for i, char := range encoded loop of Decode: k is the next rune of
\* encoded, i its byte offset, id the value accumulated so far.
RECURSIVE DecodeLoop(_, _, _, _)
DecodeLoop(encoded, k, i, id) ==
    IF k > Len(encoded)
    THEN [id |-> id, err |-> Nil]
    ELSE LET char == encoded[k]
             index == IndexRune(alphabet, char)
         IN  IF index = -1
             THEN [id |-> Zero, err |-> InvalidCharacter(char, i)]
             ELSE DecodeLoop(encoded, k + 1, i + RuneLen(char), MulAdd(id, base, index))

\* Decode accepting only the code Encode gives for the value.
Decode_OnlyCanonical(encoded) ==
    LET d == DecodeLoop(encoded, 1, 0, Zero)
    IN  IF d.err = Nil /\ Encode(d.id) # encoded
        THEN [id |-> Zero, err |-> <<[msg |-> "non-canonical base62 string", args |-> <<>>]>>]
        ELSE d

Decode(encoded) == DecodeLoop(encoded, 1, 0, Zero)

(***************************************************************************)
(* Errors: an error is the chain of its messages, outermost first; nil is  *)
(* the empty chain, and %w puts a message in front of the wrapped chain.   *)
(***************************************************************************)
New(msg) == <<[msg |-> msg, args |-> <<>>]>>

\* fmt.Errorf(msg + ": %v", args..., err): the cause is text of the message.
Wrap_Opaque(msg, args, err) == <<[msg |-> msg, args |-> <<args, err>>]>>

\* fmt.Errorf(msg + ": %w", args..., err)
Wrap(msg, args, err) == <<[msg |-> msg, args |-> args]>> \o err

\* errors.Is(err, target) for a sentinel target.
Is(err, target) == \E i \in 1..Len(err) : err[i] = target[1]

ErrNotFound == New("url not found")

\* ctx.Err() of a context that is done: its deadline passed, or it was cancelled.
ErrDeadlineExceeded == New("context deadline exceeded")

ErrCanceled == New("context canceled")

CtxErrors == {ErrDeadlineExceeded, ErrCanceled}

ErrInvalidShortCode == New("invalid short code")

\* database/sql's sentinel for a query that matched no row.
ErrNoRows == New("sql: no rows in result set")

\* What a store or cache call may fail with besides "no rows" and redis.Nil.
DbErrors == {New("db: connection refused")}

RedisErrors == {New("redis: connection refused")}

(***************************************************************************)
(* The callers, their inputs, and a call's record.                         *)
(***************************************************************************)
\* The concurrent callers of the repository, and the caller of the service.
Procs == {"p1", "p2"}

ServiceProcs == {"p1"}

\* The original URLs handed to Save and Shorten.
Urls == {"u1", "u2"}

\* The ids handed to Get directly: those the store may come to hold, and 0,
\* which the sequence never assigns.
GetIds == {FromNat(n) : n \in 0..MaxRecords}

\* All strings of at most n runes over the runes of R.
Strings(R, n) == UNION {[1..k -> R] : k \in 0..n}

\* The short codes handed to Redirect: over '0', '1', '2' and '!'.
RedirectCodes == Strings({48, 49, 50, 33}, MaxCodeLen)

\* A request whose body did not decode.
NoRequest == [ok |-> FALSE, url |-> <<>>]

\* A ResponseWriter nothing was written to: status is the status code, text
\* the message of http.Error (the body is the message and a newline), location
\* the Location header, short_code and short_url the fields of the JSON body.
NoResponse ==
    [status |-> 0, text |-> "", location |-> <<>>, short_code |-> <<>>, short_url |-> <<>>]

\* A caller with no call in flight. op is the operation called, pc where the
\* call stands; url, code and id are its arguments, originalURL is Get's local
\* of that name; lookup, select
\* and set are the outcomes of the cache read, the store query and the cache
\* write; held is what the cache held under the key when it was read; cget,
\* dbq, cset and logs count the cache reads, store queries, cache writes and
\* log lines of the call; setAt is the hour of the cache write; rid, rurl and
\* rerr are what the repository returned, outCode, outUrl and err what the
\* operation called returned. ctx is ctx.Err() of the call's context, nil
\* while it is live, and firedAt where the call stood when it was done. dbErr
\* and redisErr are Close's locals of those names, closed the connections on
\* which it has called Close. handler is the HTTP handler that made the call,
\* req the body of its request, resp what it wrote to its ResponseWriter.
NoCall ==
    [op |-> "none", pc |-> "idle", url |-> "", code |-> <<>>, id |-> Zero,
     originalURL |-> "",
     lookup |-> "none", held |-> <<>>, select |-> "none", set |-> "none", setAt |-> 0,
     cget |-> 0, dbq |-> 0, cset |-> 0, logs |-> 0,
     rid |-> Zero, rurl |-> "", rerr |-> Nil,
     outCode |-> <<>>, outUrl |-> "", err |-> Nil,
     ctx |-> Nil, firedAt |-> "none",
     dbErr |-> Nil, redisErr |-> Nil, closed |-> {},
     handler |-> "none", req |-> NoRequest, resp |-> NoResponse]

\* The limbs of the ids handed to Encode: each id is four of them.
SampleLimbs == {0, 1, 61, 62, 3843, 12345, LimbBase - 1}

SampleIds == [1..4 -> SampleLimbs]

\* Strings whose base-62 value is 2^64 or more: "lYGhA16ahyg" (2^64),
\* "ZZZZZZZZZZZ" (62^11 - 1) and "100000000000" (62^11); and "3d7" after twelve
\* '0', longer than any code of Encode.
LongInputs ==
    {<<108, 89, 71, 104, 65, 49, 54, 97, 104, 121, 103>>,
     [i \in 1..11 |-> 90],
     [i \in 1..12 |-> IF i = 1 THEN 49 ELSE 48],
     [i \in 1..12 |-> 48] \o <<51, 100, 55>>}

\* The strings handed to Decode: over '0', '1', 'z', 'Z', '!', '_' and U+00E9,
\* and "3d7", "abc!", "123-456" and "invalid_char!", and the long ones.
DecodeInputs ==
    Strings({48, 49, 122, 90, 33, 95, 233}, MaxDecodeLen)
        \cup {<<51, 100, 55>>, <<97, 98, 99, 33>>, <<49, 50, 51, 45, 52, 53, 54>>,
              <<105, 110, 118, 97, 108, 105, 100, 95, 99, 104, 97, 114, 33>>}
        \cup LongInputs

\* A codec computation not started: job is "id" (Encode id, then Decode the
\* result) or "string" (Decode s); enc and dec are what Encode and Decode gave.
NoCodec ==
    [job |-> "none", pc |-> "none", id |-> Zero, enc |-> <<>>, s |-> <<>>,
     dec |-> [id |-> Zero, err |-> Nil]]

(***************************************************************************)
(* repository.go                                                           *)
(***************************************************************************)
\* The 24*time.Hour expiry of a cache entry, in hours.
CacheTTL == 24

\* strconv of a uint64 in decimal (the %d of Sprintf), as runes.
RECURSIVE DecimalLoop(_, _)
DecimalLoop(id, digits) ==
    IF id = Zero
    THEN digits
    ELSE LET dm == DivMod(id, 10)
         IN  DecimalLoop(dm.quot, <<48 + dm.rem>> \o digits)

Decimal(id) == IF id = Zero THEN <<48>> ELSE DecimalLoop(id, <<>>)

\* The cache key without the id: one key for every row.
CacheKey_NoId(id) == <<"shorturl:id:", <<>>>>

\* The cache key made of the last decimal digit of the id only.
CacheKey_LastDigit(id) == <<"shorturl:id:", <<48 + DivMod(id, 10).rem>>>>

\* cacheKey := fmt.Sprintf("shorturl:id:%d", id)
CacheKey(id) == <<"shorturl:id:", Decimal(id)>>

\* go-redis's sentinel for a key that is absent.
RedisNil == New("redis: nil")

EmptyMap == [k \in {} |-> k]

\* Redirect wrapping the error of Get as Shorten wraps Save's.
RedirectReturn_Wraps(originalURL, err) ==
    IF err # Nil
    THEN [url |-> "", err |-> Wrap("failed to get url", <<>>, err)]
    ELSE [url |-> originalURL, err |-> Nil]

\* What Service.Redirect does with what Repository.Get returned.
RedirectReturn(originalURL, err) ==
    IF err # Nil
    THEN [url |-> "", err |-> err]
    ELSE [url |-> originalURL, err |-> Nil]

\* Shorten encoding a zero id, not the id Save returned.
ShortenReturn_EncodesZero(id, err) ==
    IF err # Nil
    THEN [code |-> <<>>, err |-> Wrap("failed to save url", <<>>, err)]
    ELSE [code |-> Encode(Zero), err |-> Nil]

\* Shorten returning a new error that does not wrap Save's.
ShortenReturn_DropsCause(id, err) ==
    IF err # Nil
    THEN [code |-> <<>>, err |-> New("failed to save url")]
    ELSE [code |-> Encode(id), err |-> Nil]

\* What Service.Shorten does with what Repository.Save returned.
ShortenReturn(id, err) ==
    IF err # Nil
    THEN [code |-> <<>>, err |-> Wrap("failed to save url", <<>>, err)]
    ELSE [code |-> Encode(id), err |-> Nil]

\* Save returning its zero id although the insert succeeded.
SaveReturn_ZeroId(id, err) ==
    IF err # Nil
    THEN [id |-> Zero, err |-> Wrap("failed to save url", <<>>, err)]
    ELSE [id |-> Zero, err |-> Nil]

\* Save's return for the id and error Scan gave.
SaveReturn(id, err) ==
    IF err # Nil
    THEN [id |-> Zero, err |-> Wrap("failed to save url", <<>>, err)]
    ELSE [id |-> id, err |-> Nil]

(***************************************************************************)
(* main.go: the HTTP handlers. Strings of a request are sequences of runes. *)
(***************************************************************************)
\* "http" and "https".
SchemeHTTP == <<104, 116, 116, 112>>

SchemeHTTPS == <<104, 116, 116, 112, 115>>

\* baseURL = "http://localhost:8080", the default of BASE_URL.
BaseURL == <<104, 116, 116, 112, 58, 47, 47, 108, 111, 99, 97, 108, 104, 111, 115, 116, 58, 56, 48, 56, 48>>

\* The UTF-8 bytes of a rune in a Go string.
UTF8(r) ==
    IF r < 128 THEN <<r>>
    ELSE IF r < 2048 THEN <<192 + (r \div 64), 128 + (r % 64)>>
    ELSE IF r < 65536
    THEN <<224 + (r \div 4096), 128 + ((r \div 64) % 64), 128 + (r % 64)>>
    ELSE <<240 + (r \div 262144), 128 + ((r \div 4096) % 64),
           128 + ((r \div 64) % 64), 128 + (r % 64)>>

\* The digit of strconv.AppendInt(b, n, 16) for n < 16.
HexDigit(n) == IF n < 10 THEN 48 + n ELSE 87 + n

\* net/http's hexEscapeNonASCII: every byte of 0x80 and more becomes '%' and
\* its two hex digits; the others stay.
RECURSIVE HexEscapeNonASCII(_)
HexEscapeNonASCII(s) ==
    IF s = <<>> THEN <<>>
    ELSE LET r == Head(s)
             bytes == UTF8(r)
             esc == IF r < 128
                    THEN <<r>>
                    ELSE LET E[i \in 0..Len(bytes)] ==
                                 IF i = 0 THEN <<>>
                                 ELSE E[i - 1] \o <<37, HexDigit(bytes[i] \div 16),
                                                    HexDigit(bytes[i] % 16)>>
                         IN  E[Len(bytes)]
         IN  esc \o HexEscapeNonASCII(Tail(s))

\* strings.ToLower of an ASCII letter.
ToLower(r) == IF r >= 65 /\ r <= 90 THEN r + 32 ELSE r

IsLetter(r) == (r >= 97 /\ r <= 122) \/ (r >= 65 /\ r <= 90)

\* net/url's getScheme: the place of the ':' that ends the scheme of rawURL,
\* 0 when rawURL has no scheme, -1 when it starts with ':' (an error).
RECURSIVE GetScheme(_, _)
GetScheme(rawURL, i) ==
    IF i > Len(rawURL) THEN 0
    ELSE LET c == rawURL[i]
         IN  IF IsLetter(c) THEN GetScheme(rawURL, i + 1)
             ELSE IF (c >= 48 /\ c <= 57) \/ c \in {43, 45, 46}
             THEN IF i = 1 THEN 0 ELSE GetScheme(rawURL, i + 1)
             ELSE IF c = 58
             THEN IF i = 1 THEN -1 ELSE i
             ELSE 0

\* The runes of s before the first '?', all of s when it has none.
BeforeQuery(s) ==
    IF \E i \in 1..Len(s) : s[i] = 63
    THEN SubSeq(s, 1, (CHOOSE i \in 1..Len(s) : s[i] = 63 /\ \A j \in 1..(i - 1) : s[j] # 63) - 1)
    ELSE s

\* A '%' of s that two hex digits do not follow (net/url's unescape fails).
BadEscape(s) ==
    \E i \in 1..Len(s) :
        /\ s[i] = 37
        /\ \/ i + 2 > Len(s)
           \/ \E j \in {i + 1, i + 2} :
                  ~((s[j] >= 48 /\ s[j] <= 57) \/ (ToLower(s[j]) >= 97 /\ ToLower(s[j]) <= 102))

\* The host of "//host/path": the runes between the "//" and the next '/'.
Authority(rest) ==
    LET a == SubSeq(rest, 3, Len(rest))
    IN  IF \E i \in 1..Len(a) : a[i] = 47
        THEN SubSeq(a, 1, (CHOOSE i \in 1..Len(a) : a[i] = 47 /\ \A j \in 1..(i - 1) : a[j] # 47) - 1)
        ELSE a

\* The runes net/url takes in a host as they are (no userinfo, port or IP
\* literal is among the urls of the requests).
HostRune(r) ==
    IsLetter(r) \/ (r >= 48 /\ r <= 57) \/ r \in {45, 46, 95, 126} \/ r >= 128

\* url.ParseRequestURI(rawURL): whether it fails, and the lower-cased Scheme of
\* the URL it returns. A rawURL with a scheme whose rest does not start with
\* '/' is an opaque URL and parses.
ParseRequestURI(rawURL) ==
    LET failed == [err |-> TRUE, scheme |-> <<>>]
        colon == GetScheme(rawURL, 1)
        scheme == [i \in 1..(IF colon > 0 THEN colon - 1 ELSE 0) |-> ToLower(rawURL[i])]
        rest == BeforeQuery(IF colon > 0 THEN SubSeq(rawURL, colon + 1, Len(rawURL)) ELSE rawURL)
    IN  IF \E i \in 1..Len(rawURL) : rawURL[i] < 32 \/ rawURL[i] = 127 THEN failed
        ELSE IF rawURL = <<>> THEN failed
        ELSE IF rawURL = <<42>> THEN [err |-> FALSE, scheme |-> <<>>]
        ELSE IF colon = -1 THEN failed
        ELSE IF rest = <<>> \/ rest[1] # 47
        THEN IF scheme # <<>> THEN [err |-> FALSE, scheme |-> scheme] ELSE failed
        ELSE IF scheme # <<>> /\ Len(rest) >= 2 /\ rest[2] = 47
        THEN IF (\E i \in 1..Len(Authority(rest)) : ~HostRune(Authority(rest)[i]))
                   \/ BadEscape(SubSeq(rest, 3 + Len(Authority(rest)), Len(rest)))
             THEN failed
             ELSE [err |-> FALSE, scheme |-> scheme]
        ELSE IF BadEscape(rest) THEN failed
        ELSE [err |-> FALSE, scheme |-> scheme]

\* http.Error(w, msg, code)
HttpError(msg, code) == [NoResponse EXCEPT !.status = code, !.text = msg]

\* http.Redirect(w, r, url, code) for a url with a scheme: the Location is the
\* url with its non-ASCII bytes escaped.
HttpRedirect(url, code) ==
    [NoResponse EXCEPT !.status = code, !.location = HexEscapeNonASCII(url)]

\* The validation of req.URL in ShortenHandler: the response it writes, none
\* when the url passes.
ValidateURL(rawURL) ==
    LET parsedURL == ParseRequestURI(rawURL)
    IN  IF rawURL = <<>>
        THEN HttpError("URL is required", 400)
        ELSE IF parsedURL.err \/ (parsedURL.scheme # SchemeHTTP /\ parsedURL.scheme # SchemeHTTPS)
        THEN HttpError("Invalid URL format. Must be http:// or https://", 400)
        ELSE NoResponse

\* What ShortenHandler writes once Service.Shorten returned (shortCode, err).
ShortenRespond(shortCode, err) ==
    IF err # Nil
    THEN IF Is(err, ErrDeadlineExceeded)
         THEN HttpError("Request timeout", 408)
         ELSE HttpError("Internal server error", 500)
    ELSE [NoResponse EXCEPT !.status = 200, !.short_code = shortCode,
                            !.short_url = BaseURL \o <<47>> \o shortCode]

\* RedirectHandler comparing err with == (no errors.Is) and knowing neither
\* the timeout nor the invalid short code.
RedirectRespond_OnlyNotFound(originalURL, err) ==
    IF err # Nil
    THEN IF err = ErrNotFound
         THEN HttpError("URL not found", 404)
         ELSE HttpError("Internal server error", 500)
    ELSE HttpRedirect(originalURL, 302)

\* What RedirectHandler writes once Service.Redirect returned (originalURL, err).
RedirectRespond(originalURL, err) ==
    IF err # Nil
    THEN IF Is(err, ErrDeadlineExceeded)
         THEN HttpError("Request timeout", 408)
         ELSE IF Is(err, ErrInvalidShortCode)
         THEN HttpError("Invalid short code", 400)
         ELSE IF Is(err, ErrNotFound)
         THEN HttpError("URL not found", 404)
         ELSE HttpError("Internal server error", 500)
    ELSE HttpRedirect(originalURL, 302)

\* The call c once Save has returned: the caller of Save has its result, the
\* caller of Shorten what Shorten makes of it.
AfterSave(c, id, err) ==
    LET r == SaveReturn(id, err)
        o == ShortenReturn(r.id, r.err)
    IN  [c EXCEPT !.pc = "done", !.rid = r.id, !.rerr = r.err,
                  !.outCode = IF c.op = "Shorten" THEN o.code ELSE <<>>,
                  !.err = IF c.op = "Shorten" THEN o.err ELSE r.err,
                  !.resp = IF c.handler # "none" THEN ShortenRespond(o.code, o.err) ELSE @]

\* The call c once Get has returned (url, err): the caller of Get has that, the
\* caller of Redirect what Redirect makes of it.
GetReturn(c, url, err) ==
    LET o == IF c.op = "Redirect"
             THEN RedirectReturn(url, err)
             ELSE [url |-> url, err |-> err]
    IN  [c EXCEPT !.pc = "done", !.rurl = url, !.rerr = err,
                  !.outUrl = o.url, !.err = o.err,
                  !.resp = IF c.handler # "none" THEN RedirectRespond(o.url, o.err) ELSE @]

\* Where Get starts: the cache read, skipped when r.redis is nil.
\* Get reading the cache whether or not one is configured.
GetEntry_AlwaysCache(on) == "CacheLookup"

GetEntry(on) == IF on THEN "CacheLookup" ELSE "StoreLookup"

\* Get going on to the store whatever the cache read gave.
OnCacheReply_AlwaysStore(c, val, err) ==
    [c EXCEPT !.pc = "StoreLookup",
              !.logs = IF err # Nil /\ err # RedisNil THEN @ + 1 ELSE @]

\* Get returning the cache's error when it is not redis.Nil.
OnCacheReply_ReturnsError(c, val, err) ==
    IF err = Nil
    THEN GetReturn(c, val, Nil)
    ELSE IF err # RedisNil
    THEN GetReturn(c, "", Wrap("failed to get url from cache", <<>>, err))
    ELSE [c EXCEPT !.pc = "StoreLookup"]

\* Get taking the cache as authoritative: an absent key is ErrNotFound.
OnCacheReply_MissIsNotFound(c, val, err) ==
    IF err = Nil
    THEN GetReturn(c, val, Nil)
    ELSE IF err = RedisNil
    THEN GetReturn(c, "", ErrNotFound)
    ELSE [c EXCEPT !.pc = "StoreLookup", !.logs = @ + 1]

\* Get after r.redis.Get(ctx, cacheKey).Result() gave (val, err).
\* Get querying the store whatever the cache answered.
OnCacheReply_AlwaysQueries(c, val, err) ==
    [c EXCEPT !.pc = "StoreLookup",
              !.logs = IF err # Nil /\ err # RedisNil THEN @ + 1 ELSE @]

OnCacheReply(c, val, err) ==
    IF err = Nil
    THEN GetReturn(c, val, Nil)
    ELSE [c EXCEPT !.pc = "StoreLookup",
                   !.logs = IF err # RedisNil THEN @ + 1 ELSE @]

\* Get wrapping every error of the query, sql.ErrNoRows too.
OnSelectReply_WrapsNoRows(c, originalURL, err, on) ==
    IF err # Nil
    THEN GetReturn(c, "", Wrap("failed to get url for id %d", c.id, err))
    ELSE IF on
    THEN [c EXCEPT !.pc = "CachePopulate", !.originalURL = originalURL]
    ELSE GetReturn(c, originalURL, Nil)

\* Get reporting every failure of the query as ErrNotFound.
OnSelectReply_NotFoundOnError(c, originalURL, err, on) ==
    IF err # Nil
    THEN GetReturn(c, "", ErrNotFound)
    ELSE IF on
    THEN [c EXCEPT !.pc = "CachePopulate", !.originalURL = originalURL]
    ELSE GetReturn(c, originalURL, Nil)

\* Get after QueryRowContext(...).Scan(&originalURL) gave (originalURL, err);
\* on is whether r.redis is non-nil.
OnSelectReply(c, originalURL, err, on) ==
    IF err = ErrNoRows
    THEN GetReturn(c, "", ErrNotFound)
    ELSE IF err # Nil
    THEN GetReturn(c, "", Wrap("failed to get url for id %d", c.id, err))
    ELSE IF on
    THEN [c EXCEPT !.pc = "CachePopulate", !.originalURL = originalURL]
    ELSE GetReturn(c, originalURL, Nil)

\* Get failing when the cache write failed.
OnSetReply_FailsRead(c, err) ==
    IF err # Nil
    THEN GetReturn([c EXCEPT !.logs = @ + 1], "", Wrap("failed to cache url", <<>>, err))
    ELSE GetReturn(c, c.originalURL, Nil)

\* Get after r.redis.Set(ctx, cacheKey, originalURL, 24*time.Hour).Err() gave err.
OnSetReply(c, err) ==
    GetReturn([c EXCEPT !.logs = IF err # Nil THEN @ + 1 ELSE @], c.originalURL, Nil)

\* The entry written with an expiry of 24 nanoseconds, not 24 hours.
CacheEntry_NoHours(originalURL, t) == [val |-> originalURL, exp |-> t]

\* The entry written with key and value swapped in the call of Set.
CacheEntry_StoresKey(originalURL, t) == [val |-> "shorturl:id:", exp |-> t + CacheTTL]

\* The entry written with no expiration (0 for the TTL argument of Set).
CacheEntry_NoExpiry(originalURL, t) == [val |-> originalURL, exp |-> MaxTime + CacheTTL + 1]

\* The entry a cache write stores at hour t.
CacheEntry(originalURL, t) == [val |-> originalURL, exp |-> t + CacheTTL]

(***************************************************************************)
(* The operations, one action per call and per store or cache round trip.  *)
(***************************************************************************)
\* A caller calls Repository.Save(ctx, url), or Service.Shorten(ctx, url),
\* which calls it.
CallSave(p, op, url) ==
    /\ calls[p].pc = "idle"
    /\ calls' = [calls EXCEPT ![p] = [NoCall EXCEPT !.op = op, !.pc = "Insert", !.url = url]]
    /\ UNCHANGED <<db, nextId, redisOn, cache, now, codec>>

\* Save writing the new row through to the cache.
Insert_WriteThrough(p) ==
    LET c == [calls[p] EXCEPT !.dbq = @ + 1, !.cset = IF redisOn THEN @ + 1 ELSE @]
        id == FromNat(nextId)
    IN  /\ c.pc = "Insert"
        /\ \/ /\ nextId <= MaxRecords
              /\ db' = (id :> c.url) @@ db
              /\ nextId' = nextId + 1
              /\ cache' = IF redisOn
                          THEN (CacheKey(id) :> CacheEntry(c.url, now)) @@ cache
                          ELSE cache
              /\ calls' = [calls EXCEPT ![p] = AfterSave(c, id, Nil)]
           \/ /\ \E e \in DbErrors : calls' = [calls EXCEPT ![p] = AfterSave(c, Zero, e)]
              /\ UNCHANGED <<db, nextId, cache>>
        /\ UNCHANGED <<redisOn, now, codec>>

\* Save returning the id of a row that holds the url already (a UNIQUE
\* original_url with a SELECT before the INSERT).
Insert_Dedup(p) ==
    LET c == [calls[p] EXCEPT !.dbq = @ + 1]
        id == FromNat(nextId)
        same == {i \in DOMAIN db : db[i] = c.url}
    IN  /\ c.pc = "Insert" /\ c.ctx = Nil
        /\ \/ /\ same # {}
              /\ calls' = [calls EXCEPT ![p] = AfterSave(c, CHOOSE i \in same : TRUE, Nil)]
              /\ UNCHANGED <<db, nextId>>
           \/ /\ same = {} /\ nextId <= MaxRecords
              /\ db' = (id :> c.url) @@ db
              /\ nextId' = nextId + 1
              /\ calls' = [calls EXCEPT ![p] = AfterSave(c, id, Nil)]
           \/ /\ \E e \in DbErrors : calls' = [calls EXCEPT ![p] = AfterSave(c, Zero, e)]
              /\ UNCHANGED <<db, nextId>>
        /\ UNCHANGED <<redisOn, cache, now, codec>>

\* Save writing every url into the first row (an UPDATE in place of the INSERT).
Insert_Overwrites(p) ==
    LET c == [calls[p] EXCEPT !.dbq = @ + 1]
        id == FromNat(1)
    IN  /\ c.pc = "Insert" /\ c.ctx = Nil
        /\ \/ /\ nextId <= MaxRecords
              /\ db' = (id :> c.url) @@ db
              /\ nextId' = nextId + 1
              /\ calls' = [calls EXCEPT ![p] = AfterSave(c, id, Nil)]
           \/ /\ \E e \in DbErrors : calls' = [calls EXCEPT ![p] = AfterSave(c, Zero, e)]
              /\ UNCHANGED <<db, nextId>>
        /\ UNCHANGED <<redisOn, cache, now, codec>>

\* INSERT INTO urls (original_url) VALUES ($1) RETURNING id: the row is added
\* under the sequence's next value, or the statement fails and adds nothing.
Insert(p) ==
    LET c == [calls[p] EXCEPT !.dbq = @ + 1]
        id == FromNat(nextId)
    IN  /\ c.pc = "Insert" /\ c.ctx = Nil
        /\ \/ /\ nextId <= MaxRecords
              /\ db' = (id :> c.url) @@ db
              /\ nextId' = nextId + 1
              /\ calls' = [calls EXCEPT ![p] = AfterSave(c, id, Nil)]
           \/ /\ \E e \in DbErrors : calls' = [calls EXCEPT ![p] = AfterSave(c, Zero, e)]
              /\ UNCHANGED <<db, nextId>>
        /\ UNCHANGED <<redisOn, cache, now, codec>>

\* A caller calls Repository.Get(ctx, id).
CallGet(p, id) ==
    /\ calls[p].pc = "idle"
    /\ calls' = [calls EXCEPT ![p] =
                    [NoCall EXCEPT !.op = "Get", !.pc = GetEntry(redisOn), !.id = id]]
    /\ UNCHANGED <<db, nextId, redisOn, cache, now, codec>>

\* Redirect calling Get whatever Decode returned.
RedirectCall_IgnoresDecodeError(shortCode, on) ==
    [NoCall EXCEPT !.op = "Redirect", !.code = shortCode,
                   !.pc = GetEntry(on), !.id = Decode(shortCode).id]

\* Redirect accepting only the code Encode gives for the id.
RedirectCall_CanonicalOnly(shortCode, on) ==
    LET d == Decode(shortCode)
        c == [NoCall EXCEPT !.op = "Redirect", !.code = shortCode]
    IN  IF d.err # Nil \/ Encode(d.id) # shortCode
        THEN [c EXCEPT !.pc = "done", !.err = ErrInvalidShortCode]
        ELSE [c EXCEPT !.pc = GetEntry(on), !.id = d.id]

\* Service.Redirect up to its call of Repository.Get.
RedirectCall(shortCode, on) ==
    LET d == Decode(shortCode)
        c == [NoCall EXCEPT !.op = "Redirect", !.code = shortCode]
    IN  IF d.err # Nil
        THEN [c EXCEPT !.pc = "done", !.err = ErrInvalidShortCode]
        ELSE [c EXCEPT !.pc = GetEntry(on), !.id = d.id]

\* A caller calls Service.Redirect(ctx, shortCode).
Redirect(p, shortCode) ==
    /\ calls[p].pc = "idle"
    /\ calls' = [calls EXCEPT ![p] = RedirectCall(shortCode, redisOn)]
    /\ UNCHANGED <<db, nextId, redisOn, cache, now, codec>>

\* The caller of a Shorten that succeeded calls Service.Redirect with the short
\* code it returned; the call's url stays the one that was shortened.
RedirectShortened(p) ==
    LET c == calls[p]
    IN  /\ c.op = "Shorten" /\ c.pc = "done" /\ c.err = Nil
        /\ calls' = [calls EXCEPT ![p] =
                        [RedirectCall(c.outCode, redisOn) EXCEPT !.url = c.url]]
        /\ UNCHANGED <<db, nextId, redisOn, cache, now, codec>>

\* The urls of the requests to ShortenHandler: "" (also a body without url),
\* "http://a.io", "https://a.io/\u00e9" with U+00E9, "ftp://a.io", "a.io"
\* and "http:a".
RequestURLs ==
    {<<>>, <<104, 116, 116, 112, 58, 47, 47, 97, 46, 105, 111>>, <<104, 116, 116, 112, 115, 58, 47, 47, 97, 46, 105, 111, 47>> \o <<233>>, <<102, 116, 112, 58, 47, 47, 97, 46, 105, 111>>, <<97, 46, 105, 111>>, <<104, 116, 116, 112, 58, 97>>}

\* The bodies of the requests: ok is whether json.NewDecoder(r.Body).Decode(&req)
\* returned nil, url the req.URL it left.
RequestBodies ==
    {[ok |-> FALSE, url |-> <<>>]} \cup {[ok |-> TRUE, url |-> u] : u \in RequestURLs}

\* The short codes the router's "/{shortCode}" hands to RedirectHandler: a
\* path variable is not empty.
HandlerCodes == RedirectCodes \ {<<>>}

\* POST /api/shorten: ShortenHandler up to its call of Service.Shorten, or to
\* the 400 it answers to a body that does not decode or a url it rejects.
ShortenHandler(p, body) ==
    LET c == [NoCall EXCEPT !.handler = "ShortenHandler", !.req = body, !.url = body.url]
        v == ValidateURL(body.url)
    IN  /\ calls[p].pc = "idle"
        /\ calls' = [calls EXCEPT ![p] =
               IF ~body.ok
               THEN [c EXCEPT !.pc = "done", !.resp = HttpError("Invalid request body", 400)]
               ELSE IF v # NoResponse
               THEN [c EXCEPT !.pc = "done", !.resp = v]
               ELSE [c EXCEPT !.op = "Shorten", !.pc = "Insert"]]
        /\ UNCHANGED <<db, nextId, redisOn, cache, now, codec>>

\* GET /{shortCode}: RedirectHandler up to the call of Repository.Get that
\* Service.Redirect makes, or to the answer to a short code Decode rejects.
RedirectHandler(p, shortCode) ==
    LET c == [RedirectCall(shortCode, redisOn) EXCEPT !.handler = "RedirectHandler"]
    IN  /\ calls[p].pc = "idle"
        /\ calls' = [calls EXCEPT ![p] =
               IF c.pc = "done"
               THEN [c EXCEPT !.resp = RedirectRespond(c.outUrl, c.err)]
               ELSE c]
        /\ UNCHANGED <<db, nextId, redisOn, cache, now, codec>>

\* The cache read extending the expiry of the entry it finds (GETEX in place
\* of GET).
CacheLookup_RefreshesTTL(p) ==
    LET c0 == calls[p]
        key == CacheKey(c0.id)
        hit == key \in DOMAIN cache
        c == [c0 EXCEPT !.cget = @ + 1, !.held = IF hit THEN <<cache[key].val>> ELSE <<>>]
    IN  /\ c0.pc = "CacheLookup" /\ c0.ctx = Nil
        /\ \/ /\ hit
              /\ calls' = [calls EXCEPT ![p] =
                              OnCacheReply([c EXCEPT !.lookup = "hit"], cache[key].val, Nil)]
              /\ cache' = [cache EXCEPT ![key] = CacheEntry(cache[key].val, now)]
           \/ /\ ~hit
              /\ calls' = [calls EXCEPT ![p] =
                              OnCacheReply([c EXCEPT !.lookup = "miss"], "", RedisNil)]
              /\ cache' = cache
           \/ /\ \E e \in RedisErrors :
                    calls' = [calls EXCEPT ![p] =
                                 OnCacheReply([c EXCEPT !.lookup = "error"], "", e)]
              /\ cache' = cache
        /\ UNCHANGED <<db, nextId, redisOn, now, codec>>

\* r.redis.Get(ctx, cacheKey): the entry's value, redis.Nil when the key is
\* absent, or a failure of the round trip.
CacheLookup(p) ==
    LET c0 == calls[p]
        key == CacheKey(c0.id)
        hit == key \in DOMAIN cache
        c == [c0 EXCEPT !.cget = @ + 1, !.held = IF hit THEN <<cache[key].val>> ELSE <<>>]
    IN  /\ c0.pc = "CacheLookup" /\ c0.ctx = Nil
        /\ \/ /\ hit
              /\ calls' = [calls EXCEPT ![p] =
                              OnCacheReply([c EXCEPT !.lookup = "hit"], cache[key].val, Nil)]
           \/ /\ ~hit
              /\ calls' = [calls EXCEPT ![p] =
                              OnCacheReply([c EXCEPT !.lookup = "miss"], "", RedisNil)]
           \/ \E e \in RedisErrors :
                 calls' = [calls EXCEPT ![p] =
                              OnCacheReply([c EXCEPT !.lookup = "error"], "", e)]
        /\ UNCHANGED <<db, nextId, redisOn, cache, now, codec>>

\* Get remembering in the cache that the store has no row (negative caching).
StoreLookup_NegativeCaching(p) ==
    LET c0 == calls[p]
        c == [c0 EXCEPT !.dbq = @ + 1]
        found == c0.id \in DOMAIN db
    IN  /\ c0.pc = "StoreLookup" /\ c0.ctx = Nil
        /\ \/ /\ found
              /\ calls' = [calls EXCEPT ![p] =
                              OnSelectReply([c EXCEPT !.select = "found"], db[c.id], Nil, redisOn)]
              /\ cache' = cache
           \/ /\ ~found
              /\ calls' = [calls EXCEPT ![p] =
                              OnSelectReply([c EXCEPT !.select = "norows"], "", ErrNoRows, redisOn)]
              /\ cache' = IF redisOn
                          THEN (CacheKey(c0.id) :> CacheEntry("", now)) @@ cache
                          ELSE cache
           \/ /\ \E e \in DbErrors :
                    calls' = [calls EXCEPT ![p] =
                                 OnSelectReply([c EXCEPT !.select = "error"], "", e, redisOn)]
              /\ cache' = cache
        /\ UNCHANGED <<db, nextId, redisOn, now, codec>>

\* SELECT original_url FROM urls WHERE id = $1: the row's url, sql.ErrNoRows,
\* or a failure of the query.
StoreLookup(p) ==
    LET c0 == calls[p]
        c == [c0 EXCEPT !.dbq = @ + 1]
        found == c0.id \in DOMAIN db
    IN  /\ c0.pc = "StoreLookup" /\ c0.ctx = Nil
        /\ \/ /\ found
              /\ calls' = [calls EXCEPT ![p] =
                              OnSelectReply([c EXCEPT !.select = "found"], db[c.id], Nil, redisOn)]
           \/ /\ ~found
              /\ calls' = [calls EXCEPT ![p] =
                              OnSelectReply([c EXCEPT !.select = "norows"], "", ErrNoRows, redisOn)]
           \/ \E e \in DbErrors :
                 calls' = [calls EXCEPT ![p] =
                              OnSelectReply([c EXCEPT !.select = "error"], "", e, redisOn)]
        /\ UNCHANGED <<db, nextId, redisOn, cache, now, codec>>

\* r.redis.Set(ctx, cacheKey, originalURL, 24*time.Hour): the entry is stored,
\* or the round trip fails, with the entry stored (the reply was lost) or not.
CachePopulate(p) ==
    LET c0 == calls[p]
        key == CacheKey(c0.id)
        c == [c0 EXCEPT !.cset = @ + 1, !.setAt = now]
        stored == (key :> CacheEntry(c0.originalURL, now)) @@ cache
    IN  /\ c0.pc = "CachePopulate" /\ c0.ctx = Nil
        /\ \/ /\ cache' = stored
              /\ calls' = [calls EXCEPT ![p] = OnSetReply([c EXCEPT !.set = "ok"], Nil)]
           \/ \E e \in RedisErrors :
                 /\ cache' \in {cache, stored}
                 /\ calls' = [calls EXCEPT ![p] = OnSetReply([c EXCEPT !.set = "failed"], e)]
        /\ UNCHANGED <<db, nextId, redisOn, now, codec>>

\* The places where a call waits on the store or the cache with its ctx.
Waiting == {"Insert", "CacheLookup", "StoreLookup", "CachePopulate"}

\* The context of a call in flight is done: the timeout of context.WithTimeout
\* passed, or the request's context was cancelled.
CtxFires(p) ==
    LET c == calls[p]
    IN  /\ c.pc \in Waiting /\ c.ctx = Nil
        /\ \E e \in CtxErrors :
               calls' = [calls EXCEPT ![p] = [c EXCEPT !.ctx = e, !.firedAt = c.pc]]
        /\ UNCHANGED <<db, nextId, redisOn, cache, now, codec>>

\* The store or cache call of a call whose ctx is done returns ctx.Err(): the
\* statement adds no row, the cache read gives no value, and the cache write
\* stored the entry before the reply was given up, or did not.
CallAborted(p) ==
    LET c == calls[p]
        e == c.ctx
        key == CacheKey(c.id)
        stored == (key :> CacheEntry(c.originalURL, now)) @@ cache
    IN  /\ c.pc \in Waiting /\ e # Nil
        /\ \/ /\ c.pc = "Insert"
              /\ calls' = [calls EXCEPT ![p] =
                              AfterSave([c EXCEPT !.dbq = @ + 1], Zero, e)]
              /\ cache' = cache
           \/ /\ c.pc = "CacheLookup"
              /\ calls' = [calls EXCEPT ![p] =
                              OnCacheReply([c EXCEPT !.cget = @ + 1, !.lookup = "error"], "", e)]
              /\ cache' = cache
           \/ /\ c.pc = "StoreLookup"
              /\ calls' = [calls EXCEPT ![p] =
                              OnSelectReply([c EXCEPT !.dbq = @ + 1, !.select = "error"],
                                            "", e, redisOn)]
              /\ cache' = cache
           \/ /\ c.pc = "CachePopulate"
              /\ calls' = [calls EXCEPT ![p] =
                              OnSetReply([c EXCEPT !.cset = @ + 1, !.setAt = now,
                                                   !.set = "failed"], e)]
              /\ cache' \in {cache, stored}
        /\ UNCHANGED <<db, nextId, redisOn, now, codec>>

\* Close reporting the store's failure alone when both closes failed.
CloseReturn_FirstOnly(dbErr, redisErr) ==
    IF dbErr # Nil
    THEN Wrap("failed to close database", <<>>, dbErr)
    ELSE IF redisErr # Nil
    THEN Wrap("failed to close redis", <<>>, redisErr)
    ELSE Nil

\* What Close returns for the errors of the two closes; with both, one error
\* whose message has the two as text (%v), wrapping neither.
CloseReturn(dbErr, redisErr) ==
    IF dbErr # Nil /\ redisErr # Nil
    THEN <<[msg |-> "failed to close connections: db=%v, redis=%v",
            args |-> <<dbErr, redisErr>>]>>
    ELSE IF dbErr # Nil
    THEN Wrap("failed to close database", <<>>, dbErr)
    ELSE IF redisErr # Nil
    THEN Wrap("failed to close redis", <<>>, redisErr)
    ELSE Nil

\* The call c once Close has the errors of its closes.
AfterClose(c) == [c EXCEPT !.pc = "done", !.err = CloseReturn(c.dbErr, c.redisErr)]

\* A caller calls Repository.Close().
CallClose(p) ==
    /\ calls[p].pc = "idle"
    /\ calls' = [calls EXCEPT ![p] = [NoCall EXCEPT !.op = "Close", !.pc = "CloseDb"]]
    /\ UNCHANGED <<db, nextId, redisOn, cache, now, codec>>

\* dbErr = r.db.Close(): nil or a failure; Close goes on to the cache either
\* way, or returns when r.redis is nil.
CloseDb(p) ==
    LET c0 == calls[p]
    IN  /\ c0.pc = "CloseDb"
        /\ \E e \in {Nil} \cup DbErrors :
               LET c == [c0 EXCEPT !.dbErr = e, !.closed = @ \cup {"db"}]
               IN  calls' = [calls EXCEPT ![p] =
                                IF redisOn THEN [c EXCEPT !.pc = "CloseRedis"]
                                           ELSE AfterClose(c)]
        /\ UNCHANGED <<db, nextId, redisOn, cache, now, codec>>

\* redisErr = r.redis.Close(): nil or a failure.
CloseRedis(p) ==
    LET c0 == calls[p]
    IN  /\ c0.pc = "CloseRedis"
        /\ \E e \in {Nil} \cup RedisErrors :
               calls' = [calls EXCEPT ![p] =
                            AfterClose([c0 EXCEPT !.redisErr = e, !.closed = @ \cup {"redis"}])]
        /\ UNCHANGED <<db, nextId, redisOn, cache, now, codec>>

\* The caller takes the result of its call and is free to call again.
Take(p) ==
    /\ calls[p].pc = "done"
    /\ calls' = [calls EXCEPT ![p] = NoCall]
    /\ UNCHANGED <<db, nextId, redisOn, cache, now, codec>>

\* Time passes; Redis drops the entries whose expiry has come.
Tick ==
    /\ now + TickHours <= MaxTime
    /\ now' = now + TickHours
    /\ cache' = [k \in {k \in DOMAIN cache : cache[k].exp > now + TickHours} |-> cache[k]]
    /\ UNCHANGED <<db, nextId, redisOn, calls, codec>>

Init ==
    /\ db = EmptyMap
    /\ nextId = 1
    /\ redisOn \in BOOLEAN
    /\ cache = EmptyMap
    /\ now = 0
    /\ calls = [p \in Procs |-> NoCall]
    /\ codec = NoCodec

\* The repository under concurrent callers of Save and Get.
Next ==
    \/ \E p \in Procs, url \in Urls : CallSave(p, "Save", url)
    \/ \E p \in Procs : Insert(p)
    \/ \E p \in Procs, id \in GetIds : CallGet(p, id)
    \/ \E p \in Procs : CacheLookup(p)
    \/ \E p \in Procs : StoreLookup(p)
    \/ \E p \in Procs : CachePopulate(p)
    \/ \E p \in Procs : Take(p)
    \/ Tick

Spec == Init /\ [][Next]_vars

\* The service over the repository: a caller of Shorten and Redirect.
ServiceNext ==
    \/ \E p \in ServiceProcs, url \in Urls : CallSave(p, "Shorten", url)
    \/ \E p \in ServiceProcs : Insert(p)
    \/ \E p \in ServiceProcs, shortCode \in RedirectCodes : Redirect(p, shortCode)
    \/ \E p \in ServiceProcs : RedirectShortened(p)
    \/ \E p \in ServiceProcs : CacheLookup(p)
    \/ \E p \in ServiceProcs : StoreLookup(p)
    \/ \E p \in ServiceProcs : CachePopulate(p)
    \/ \E p \in ServiceProcs : Take(p)
    \/ Tick

ServiceSpec == Init /\ [][ServiceNext]_vars

\* The round trip to the store or cache on which the call of p waits comes to
\* its end, with a reply or because the ctx is done.
CallReturns(p) ==
    Insert(p) \/ CacheLookup(p) \/ StoreLookup(p) \/ CachePopulate(p) \/ CallAborted(p)

\* The short codes of the ids asked of Get, the ones Redirect takes to the
\* repository.
StoredCodes == {Encode(id) : id \in GetIds}

\* A caller of the four operations whose context may be done at any point of
\* a call in flight.
DeadlineNext ==
    \/ \E p \in ServiceProcs, op \in {"Save", "Shorten"}, url \in Urls : CallSave(p, op, url)
    \/ \E p \in ServiceProcs, id \in GetIds : CallGet(p, id)
    \/ \E p \in ServiceProcs, shortCode \in StoredCodes : Redirect(p, shortCode)
    \/ \E p \in ServiceProcs : CtxFires(p)
    \/ \E p \in ServiceProcs : Insert(p)
    \/ \E p \in ServiceProcs : CacheLookup(p)
    \/ \E p \in ServiceProcs : StoreLookup(p)
    \/ \E p \in ServiceProcs : CachePopulate(p)
    \/ \E p \in ServiceProcs : CallAborted(p)
    \/ \E p \in ServiceProcs : Take(p)

\* Every database/sql and go-redis call made with a ctx returns: with its
\* reply, or with ctx.Err() once the ctx is done.
DeadlineSpec ==
    /\ Init /\ [][DeadlineNext]_vars
    /\ \A p \in ServiceProcs : WF_vars(CallReturns(p))

\* "lYGhA16ahyg" is 2^64 in base 62; with its last symbol n places further in
\* the alphabet the string is 2^64 + n (n at most 19).
WrapAlias(n) == <<108, 89, 71, 104, 65, 49, 54, 97, 104, 121, 103 + n>>

\* The short codes of the ids 0..MaxRecords: the code Encode gives, the code
\* after up to MaxPad '0' symbols, the code of the id plus 2^64; and "".
AliasCodes ==
    {<<>>} \cup {[i \in 1..k |-> 48] \o Encode(FromNat(n)) : k \in 0..MaxPad, n \in 0..MaxRecords}
           \cup {WrapAlias(n) : n \in 0..MaxRecords}

\* A caller of Shorten, and of Redirect with the codes and their aliases.
AliasNext ==
    \/ \E p \in ServiceProcs, url \in Urls : CallSave(p, "Shorten", url)
    \/ \E p \in ServiceProcs : Insert(p)
    \/ \E p \in ServiceProcs, shortCode \in AliasCodes : Redirect(p, shortCode)
    \/ \E p \in ServiceProcs : CacheLookup(p)
    \/ \E p \in ServiceProcs : StoreLookup(p)
    \/ \E p \in ServiceProcs : CachePopulate(p)
    \/ \E p \in ServiceProcs : Take(p)

AliasSpec == Init /\ [][AliasNext]_vars

\* The server: one request at a time to the two handlers, each calling the
\* service with a ctx that may be done before the call is over.
HandlerNext ==
    \/ \E p \in ServiceProcs, body \in RequestBodies : ShortenHandler(p, body)
    \/ \E p \in ServiceProcs, shortCode \in HandlerCodes : RedirectHandler(p, shortCode)
    \/ \E p \in ServiceProcs : CtxFires(p)
    \/ \E p \in ServiceProcs : Insert(p)
    \/ \E p \in ServiceProcs : CacheLookup(p)
    \/ \E p \in ServiceProcs : StoreLookup(p)
    \/ \E p \in ServiceProcs : CachePopulate(p)
    \/ \E p \in ServiceProcs : CallAborted(p)
    \/ \E p \in ServiceProcs : Take(p)

HandlerSpec == Init /\ [][HandlerNext]_vars

\* No caller has called Close.
Open == \A p \in Procs : calls[p].op # "Close"

\* The repository used and then closed: callers of Save and Get, one of which
\* calls Close, after which no call is begun.
CloseNext ==
    \/ \E p \in Procs, url \in Urls : Open /\ CallSave(p, "Save", url)
    \/ \E p \in Procs, id \in GetIds : Open /\ CallGet(p, id)
    \/ \E p \in Procs : Insert(p)
    \/ \E p \in Procs : CacheLookup(p)
    \/ \E p \in Procs : StoreLookup(p)
    \/ \E p \in Procs : CachePopulate(p)
    \/ \E p \in Procs : Open /\ Take(p)
    \/ \E p \in Procs : Open /\ CallClose(p)
    \/ \E p \in Procs : CloseDb(p)
    \/ \E p \in Procs : CloseRedis(p)

CloseSpec == Init /\ [][CloseNext]_vars

(***************************************************************************)
(* The codec on its own: Encode and Decode applied to sampled inputs.      *)
(***************************************************************************)
CodecInit ==
    /\ db = EmptyMap
    /\ nextId = 1
    /\ redisOn = TRUE
    /\ cache = EmptyMap
    /\ now = 0
    /\ calls = [p \in Procs |-> NoCall]
    /\ \/ \E id \in SampleIds : codec = [NoCodec EXCEPT !.job = "id", !.pc = "Encode", !.id = id]
       \/ \E s \in DecodeInputs : codec = [NoCodec EXCEPT !.job = "string", !.pc = "Decode", !.s = s]

\* enc := Encode(id)
CodecEncode ==
    /\ codec.pc = "Encode"
    /\ codec' = [codec EXCEPT !.pc = "DecodeBack", !.enc = Encode(codec.id)]
    /\ UNCHANGED <<db, nextId, redisOn, cache, now, calls>>

\* Decode(enc), of what Encode returned
CodecDecodeBack ==
    /\ codec.pc = "DecodeBack"
    /\ codec' = [codec EXCEPT !.pc = "done", !.dec = Decode(codec.enc)]
    /\ UNCHANGED <<db, nextId, redisOn, cache, now, calls>>

\* Decode(s)
CodecDecode ==
    /\ codec.pc = "Decode"
    /\ codec' = [codec EXCEPT !.pc = "done", !.dec = Decode(codec.s)]
    /\ UNCHANGED <<db, nextId, redisOn, cache, now, calls>>

CodecNext == CodecEncode \/ CodecDecodeBack \/ CodecDecode

CodecSpec == CodecInit /\ [][CodecNext]_vars

(***************************************************************************)
(* The properties.                                                         *)
(***************************************************************************)
\* The runes of [0-9a-zA-Z].
AlphabetRunes == (48..57) \cup (97..122) \cup (65..90)

HasInvalidRune(code) == \E k \in 1..Len(code) : code[k] \notin AlphabetRunes

\* The 1-based place of the first rune of code outside [0-9a-zA-Z].
FirstInvalid(code) ==
    CHOOSE k \in 1..Len(code) :
        code[k] \notin AlphabetRunes /\ \A j \in 1..(k - 1) : code[j] \in AlphabetRunes

\* A call of Get whose cache read found an entry under the key.
CacheHit(c) == c.op = "Get" /\ c.cget = 1 /\ c.held # <<>> /\ c.lookup # "error"

\* C1: a Get whose cache read finds an entry under the id's key returns at once
\* the value the cache held, with no error, and has made no store query.
C1_CacheHitShortCircuitsStore ==
    \A p \in Procs :
        LET c == calls[p]
        IN  CacheHit(c) =>
                /\ c.pc = "done"
                /\ c.rurl = c.held[1] /\ c.rerr = Nil
                /\ c.outUrl = c.held[1] /\ c.err = Nil
                /\ c.dbq = 0 /\ c.select = "none"

C1_Witness ==
    \E p \in Procs : CacheHit(calls[p]) /\ calls[p].pc = "done" /\ calls[p].rurl \in Urls

\* A returned Get that missed a working cache, found the row and wrote the cache.
Populated(c) ==
    c.op = "Get" /\ c.pc = "done" /\ c.lookup = "miss" /\ c.select = "found" /\ c.set = "ok"

\* The entry a call wrote at hour c.setAt has not expired.
Unexpired(c) == now < c.setAt + CacheTTL

\* C2, first Get: it has queried the store exactly once and, until the entry
\* expires, the cache holds the store's value under the id's key.
C2_FirstGetPopulates ==
    \A q \in Procs :
        LET c == calls[q]
        IN  Populated(c) =>
                /\ c.dbq = 1 /\ c.rurl = db[c.id] /\ c.rerr = Nil
                /\ Unexpired(c) =>
                       /\ CacheKey(c.id) \in DOMAIN cache
                       /\ cache[CacheKey(c.id)].val = db[c.id]

\* C2, second Get: a cache read of the same id made after the first Get has
\* returned and before the entry expires, the cache working, ends the call with
\* the same value, no error and no store query.
C2_SecondGetStep ==
    \A q \in Procs : \A p \in Procs \ {q} :
        (/\ Populated(calls[q]) /\ Unexpired(calls[q])
         /\ calls[p].pc = "CacheLookup" /\ calls[p].id = calls[q].id
         /\ calls'[p] # calls[p]
         /\ calls'[p].lookup # "error")
        => /\ calls'[p].pc = "done"
           /\ calls'[p].rurl = calls[q].rurl /\ calls'[p].rerr = Nil
           /\ calls'[p].dbq = 0

\* C2: a Get that misses a working cache and finds the row queries the store
\* once and leaves the store's value in the cache; a later Get of the id, before
\* the entry expires, returns the same value without a store query.
C2_CacheMissPopulatesCache == [](C2_FirstGetPopulates) /\ [][C2_SecondGetStep]_vars

C2_Witness ==
    \E q \in Procs : \E p \in Procs \ {q} :
        /\ Populated(calls[q]) /\ now = 0
        /\ CacheHit(calls[p]) /\ calls[p].pc = "done"
        /\ calls[p].id = calls[q].id /\ calls[p].rurl = calls[q].rurl

\* C3: a Get of an id that the cache did not hold and the store reported to
\* have no row fails with ErrNotFound itself and the empty url.
C3_NotFoundPropagation ==
    \A p \in Procs :
        LET c == calls[p]
        IN  (c.op = "Get" /\ c.pc = "done" /\ c.held = <<>> /\ c.select = "norows") =>
                /\ c.rerr = ErrNotFound /\ c.rurl = ""
                /\ c.err = ErrNotFound /\ c.outUrl = ""

C3_Witness ==
    \E p \in Procs :
        LET c == calls[p]
        IN  /\ c.op = "Get" /\ c.pc = "done" /\ c.select = "norows"
            /\ c.lookup = "miss" /\ c.id \notin DOMAIN db

\* What a Get that queried the store returns, by what the store answered.
ResultIsTheStores(c) ==
    /\ c.dbq = 1
    /\ c.select = "found" => c.rurl = db[c.id] /\ c.rerr = Nil
    /\ c.select = "norows" => c.rurl = "" /\ c.rerr = ErrNotFound
    /\ c.select = "error" =>
           /\ c.rurl = "" /\ ~Is(c.rerr, ErrNotFound)
           /\ \E e \in DbErrors : Is(c.rerr, e) /\ c.rerr # e

\* C4: a Get whose cache read failed goes on to the store and returns what the
\* store lookup yields; the cache's error is not in what it returns.
C4_CacheReadErrorIsAMiss ==
    \A p \in Procs :
        LET c == calls[p]
        IN  (c.op = "Get" /\ c.lookup = "error") =>
                /\ c.pc \in {"StoreLookup", "CachePopulate", "done"}
                /\ c.pc = "done" =>
                       /\ ResultIsTheStores(c)
                       /\ c.select # "none"
                       /\ \A e \in RedisErrors : ~Is(c.rerr, e) /\ ~Is(c.err, e)

C4_Witness ==
    \E p \in Procs :
        LET c == calls[p]
        IN  /\ c.op = "Get" /\ c.lookup = "error" /\ c.pc = "done"
            /\ c.held # <<>> /\ c.select = "found" /\ c.rurl = db[c.id]

\* C5: a Get that read the row from the store returns the store's value with
\* no error, whether its cache write succeeded, failed or was not made.
C5_CacheWriteFailureDoesNotFailRead ==
    \A p \in Procs :
        LET c == calls[p]
        IN  (c.op = "Get" /\ c.pc = "done" /\ c.select = "found") =>
                /\ c.rurl = db[c.id] /\ c.rerr = Nil
                /\ c.outUrl = db[c.id] /\ c.err = Nil

C5_Witness ==
    \E p \in Procs :
        LET c == calls[p]
        IN  /\ c.op = "Get" /\ c.pc = "done" /\ c.select = "found" /\ c.set = "failed"
            /\ CacheKey(c.id) \notin DOMAIN cache

\* C6: Decode of what Encode returned for an id succeeds and returns the id.
C6_CodecRoundTrip ==
    (codec.job = "id" /\ codec.pc = "done") =>
        codec.dec.err = Nil /\ codec.dec.id = codec.id

C6_Witness ==
    codec.job = "id" /\ codec.pc = "done" /\ codec.id = MaxUint64 /\ Len(codec.enc) = 11

\* C7: Redirect of a short code with a rune outside [0-9a-zA-Z] has returned
\* ErrInvalidShortCode and the empty url without a cache read, a store query
\* or a cache write.
C7_InvalidCodeTouchesNothing ==
    \A p \in Procs :
        LET c == calls[p]
        IN  (c.op = "Redirect" /\ HasInvalidRune(c.code)) =>
                /\ c.pc = "done"
                /\ c.err = ErrInvalidShortCode /\ c.outUrl = ""
                /\ c.cget = 0 /\ c.dbq = 0 /\ c.cset = 0

C7_Witness ==
    \E p \in Procs :
        LET c == calls[p]
        IN  /\ c.op = "Redirect" /\ c.pc = "done" /\ c.code = <<49, 33>>
            /\ FromNat(1) \in DOMAIN db

\* C8: Redirect of the empty short code returns ErrInvalidShortCode without a
\* cache read or a store query.
C8_EmptyCodeIsInvalid ==
    \A p \in Procs :
        LET c == calls[p]
        IN  (c.op = "Redirect" /\ c.pc = "done" /\ c.code = <<>>) =>
                c.err = ErrInvalidShortCode /\ c.cget = 0 /\ c.dbq = 0

\* C9: Decode of the empty string fails.
C9_DecodeEmptyFails ==
    (codec.job = "string" /\ codec.pc = "done" /\ codec.s = <<>>) => codec.dec.err # Nil

\* C10: Decode of a string with a rune outside [0-9a-zA-Z] returns id 0 and the
\* invalid-character error naming the first such rune and its 0-based position.
C10_DecodeInvalidCharacter ==
    (codec.job = "string" /\ codec.pc = "done" /\ HasInvalidRune(codec.s)) =>
        LET k == FirstInvalid(codec.s)
        IN  /\ codec.dec.id = Zero
            /\ codec.dec.err =
                   <<[msg |-> "invalid character '%c' at position %d in base62 string",
                      args |-> <<codec.s[k], k - 1>>]>>

\* Decode("invalid_char!") has reported '_' at position 7.
C10_Witness ==
    /\ codec.job = "string" /\ codec.pc = "done"
    /\ codec.s = <<105, 110, 118, 97, 108, 105, 100, 95, 99, 104, 97, 114, 33>>
    /\ codec.dec.err[1].args = <<95, 7>>


\* A Redirect of the short code that Shorten returned for c.url.
RoundTrip(c) == c.op = "Redirect" /\ c.url \in Urls

\* C11: Redirect of the short code Shorten returned for a url, the store
\* answering its query, succeeds and returns that url.
C11_ServiceRoundTrip ==
    \A p \in Procs :
        LET c == calls[p]
        IN  (RoundTrip(c) /\ c.pc = "done" /\ c.select # "error") =>
                c.err = Nil /\ c.outUrl = c.url

C11_Witness ==
    \E p \in Procs :
        LET c == calls[p]
        IN  /\ RoundTrip(c) /\ c.pc = "done" /\ c.select = "found"
            /\ c.outUrl = "u2" /\ c.code = <<50>>


\* A Save that has returned an id.
Saved(c) == c.op = "Save" /\ c.pc = "done" /\ c.rerr = Nil

\* C12, the ids: the id a Save returned is a row of the store holding its url,
\* and two Saves have returned different ids, whose short codes differ.
C12_DistinctIds ==
    \A p \in Procs :
        Saved(calls[p]) =>
            /\ calls[p].rid \in DOMAIN db /\ db[calls[p].rid] = calls[p].url
            /\ \A q \in Procs \ {p} :
                   Saved(calls[q]) =>
                       /\ calls[q].rid # calls[p].rid
                       /\ Encode(calls[q].rid) # Encode(calls[p].rid)

\* C12, the Get: a Get of an id that a Save has returned, ending without a
\* failure of its store query, returns the url that was saved.
C12_GetStep ==
    \A q \in Procs : \A p \in Procs \ {q} :
        (/\ Saved(calls[q])
         /\ calls[p].op = "Get" /\ calls[p].id = calls[q].rid
         /\ calls[p].pc # "done" /\ calls'[p].pc = "done"
         /\ calls'[p].select # "error")
        => calls'[p].rerr = Nil /\ calls'[p].rurl = calls[q].url

\* C12: concurrent Saves return pairwise different ids and short codes, and
\* each returned id is retrievable with Get afterwards.
C12_ConcurrentUniqueness == [](C12_DistinctIds) /\ [][C12_GetStep]_vars

C12_Witness ==
    /\ Saved(calls["p1"]) /\ Saved(calls["p2"])
    /\ calls["p1"].url # calls["p2"].url
    /\ calls["p1"].rid = FromNat(2) /\ calls["p2"].rid = FromNat(1)


\* A Get of a stored id that missed the cache and read the row.
MissedAndFound(c) == c.op = "Get" /\ c.lookup = "miss" /\ c.select = "found"

\* C13: of two Gets of one id that both missed the cache, each has made its own
\* store query and returns the store's url, and whatever their writes left in
\* the cache under the id's key is that url.
C13_ConcurrentMisses ==
    \A p \in Procs : \A q \in Procs \ {p} :
        (/\ MissedAndFound(calls[p]) /\ MissedAndFound(calls[q])
         /\ calls[p].id = calls[q].id)
        => /\ calls[p].dbq = 1 /\ calls[q].dbq = 1
           /\ calls[p].pc = "done" => calls[p].rurl = db[calls[p].id] /\ calls[p].rerr = Nil
           /\ (calls[p].pc = "done" /\ calls[q].pc = "done") => calls[p].rurl = calls[q].rurl
           /\ CacheKey(calls[p].id) \in DOMAIN cache =>
                  cache[CacheKey(calls[p].id)].val = db[calls[p].id]

\* Both callers missed before either wrote, and both have written and returned.
C13_Witness ==
    /\ now = 0
    /\ \A p \in Procs :
           MissedAndFound(calls[p]) /\ calls[p].pc = "done" /\ calls[p].set = "ok"
    /\ calls["p1"].id = calls["p2"].id
    /\ cache[CacheKey(calls["p1"].id)].val = calls["p2"].rurl


\* What the store answers to the query for id when the query does not fail.
StoreAnswer(id) ==
    IF id \in DOMAIN db THEN [url |-> db[id], err |-> Nil]
                        ELSE [url |-> "", err |-> ErrNoRows]

\* What Get(id) returns from a repository with no cache (r.redis nil) to whose
\* query the store gave (url, err).
DirectGet(id, url, err) ==
    LET r == OnSelectReply([NoCall EXCEPT !.op = "Get", !.id = id], url, err, FALSE)
    IN  <<r.rurl, r.rerr>>

\* A Get returns in this step.
GetReturns(p) == calls[p].op = "Get" /\ calls[p].pc # "done" /\ calls'[p].pc = "done"

C14_GetStep ==
    \A p \in Procs :
        GetReturns(p) =>
            LET c == calls'[p]
                a == StoreAnswer(c.id)
            IN  /\ c.dbq \in {0, 1}
                /\ ~redisOn => c.dbq = 1 /\ c.cget = 0 /\ c.cset = 0
                /\ IF c.select = "error"
                   THEN \E e \in DbErrors : <<c.rurl, c.rerr>> = DirectGet(c.id, "", e)
                   ELSE <<c.rurl, c.rerr>> = DirectGet(c.id, a.url, a.err)

\* C14: whatever the cache did (hit, miss, failed read, failed write, expiry),
\* a Get returns what the repository without a cache returns on the store as
\* it stands: the row's url, ErrNotFound, or the wrapped failure of its own
\* store query; it makes at most one store query.
C14_CacheTransparency == [][C14_GetStep]_vars

\* After an expiry, one Get has been served from the cache and another, whose
\* cache read and cache write both failed, from the store: both with the row.
C14_Witness ==
    /\ redisOn /\ now >= CacheTTL
    /\ calls["p1"].op = "Get" /\ calls["p1"].pc = "done" /\ calls["p1"].lookup = "hit"
    /\ calls["p2"].op = "Get" /\ calls["p2"].pc = "done" /\ calls["p2"].lookup = "error"
    /\ calls["p2"].set = "failed" /\ calls["p1"].id = calls["p2"].id
    /\ calls["p1"].rurl = db[calls["p1"].id] /\ calls["p2"].rurl = calls["p1"].rurl


\* A Save that has returned made one store statement and no cache call.
C15_SaveCalls ==
    \A p \in Procs :
        (calls[p].op = "Save" /\ calls[p].pc = "done") =>
            calls[p].dbq = 1 /\ calls[p].cget = 0 /\ calls[p].cset = 0 /\ calls[p].logs = 0

\* Every entry of the cache is under the key of a row of the store.
C15_CachedAreStored == \A id \in GetIds : CacheKey(id) \in DOMAIN cache => id \in DOMAIN db

\* The step in which Save returns leaves the cache as it was, and the row it
\* created has no entry.
C15_SaveStep ==
    \A p \in Procs :
        (calls[p].op = "Save" /\ calls[p].pc # "done" /\ calls'[p].pc = "done") =>
            /\ cache' = cache
            /\ calls'[p].rerr = Nil =>
                   /\ calls'[p].rid \in DOMAIN db' \ DOMAIN db
                   /\ CacheKey(calls'[p].rid) \notin DOMAIN cache'

\* A cache read of an id that has no entry is not a hit and goes on to the store.
C15_MissStep ==
    \A p \in Procs :
        (/\ calls[p].op = "Get" /\ calls[p].pc = "CacheLookup"
         /\ calls'[p].pc # "CacheLookup"
         /\ CacheKey(calls[p].id) \notin DOMAIN cache)
        => calls'[p].lookup \in {"miss", "error"} /\ calls'[p].pc = "StoreLookup"

\* C15: Save makes one store statement and neither reads nor writes the cache;
\* the row it creates has no cache entry, so the first Get of its id does not
\* hit the cache and queries the store.
C15_SaveLeavesCacheAlone ==
    /\ [](C15_SaveCalls /\ C15_CachedAreStored)
    /\ [][C15_SaveStep /\ C15_MissStep]_vars

\* A Save returned the id of its new row while the cache, holding another
\* row's entry, has none for it, and a Get of the new id has missed.
C15_Witness ==
    /\ calls["p1"].op = "Save" /\ calls["p1"].pc = "done" /\ calls["p1"].rerr = Nil
    /\ calls["p1"].rid = FromNat(2) /\ cache # EmptyMap
    /\ CacheKey(calls["p1"].rid) \notin DOMAIN cache
    /\ calls["p2"].op = "Get" /\ calls["p2"].id = calls["p1"].rid
    /\ calls["p2"].lookup = "miss" /\ calls["p2"].pc = "StoreLookup"


\* Every entry expires within 24 hours of now and has not expired yet.
C16_ExpiryWithinTTL ==
    \A k \in DOMAIN cache : now < cache[k].exp /\ cache[k].exp <= now + CacheTTL

\* A cache write that succeeds stores the url read from the store, to expire
\* exactly 24 hours later.
C16_SetStep ==
    \A p \in Procs :
        (calls[p].pc = "CachePopulate" /\ calls'[p].set = "ok") =>
            /\ CacheKey(calls[p].id) \in DOMAIN cache'
            /\ cache'[CacheKey(calls[p].id)] = [val |-> db[calls[p].id], exp |-> now + 24]

\* A Get that had populated the cache 24 hours or more ago: its entry is gone.
C16_Expired(q) ==
    /\ calls[q].op = "Get" /\ calls[q].pc = "done" /\ calls[q].set = "ok"
    /\ now >= calls[q].setAt + 24

\* With the entry written by q expired, a Get of the id reads no entry and
\* goes to the store, unless a later write has stored the entry again.
C16_ExpiredStep ==
    \A q \in Procs : \A p \in Procs \ {q} :
        (/\ C16_Expired(q) /\ calls[p].op = "Get" /\ calls[p].id = calls[q].id
         /\ calls[p].pc = "CacheLookup" /\ calls'[p].pc # "CacheLookup")
        => IF calls'[p].lookup = "hit"
           THEN cache[CacheKey(calls[p].id)].exp > calls[q].setAt + 24
           ELSE calls'[p].pc = "StoreLookup"

\* A Get of that id that missed returns, when its store query does not fail,
\* the stored url, having written the cache again; a write that succeeded has
\* left the url in the cache.
C16_ReturnStep ==
    \A q \in Procs : \A p \in Procs \ {q} :
        (/\ C16_Expired(q) /\ calls[p].op = "Get" /\ calls[p].id = calls[q].id
         /\ calls[p].pc # "done" /\ calls'[p].pc = "done"
         /\ calls'[p].lookup = "miss" /\ calls'[p].select # "error")
        => /\ calls'[p].rerr = Nil /\ calls'[p].rurl = calls[q].rurl
           /\ calls'[p].rurl = db[calls[p].id] /\ calls'[p].cset = 1
           /\ calls'[p].set = "ok" =>
                  /\ CacheKey(calls[p].id) \in DOMAIN cache'
                  /\ cache'[CacheKey(calls[p].id)].val = calls'[p].rurl

\* C16: a cache entry is written to expire 24 hours later and is gone once that
\* time has come; a Get of its id then misses, reads the store, returns the
\* stored url and writes the entry again with that value.
C16_ExpiryFallsBackToStore ==
    /\ []C16_ExpiryWithinTTL
    /\ [][C16_SetStep /\ C16_ExpiredStep /\ C16_ReturnStep]_vars

\* At hour 24 the entry written at hour 0 is gone; a second Get missed, read
\* the store and wrote the entry again, to expire at hour 48.
C16_Witness ==
    /\ now = 24 /\ C16_Expired("p1") /\ calls["p1"].setAt = 0
    /\ calls["p2"].op = "Get" /\ calls["p2"].id = calls["p1"].id
    /\ calls["p2"].pc = "done" /\ calls["p2"].lookup = "miss"
    /\ calls["p2"].set = "ok" /\ calls["p2"].setAt = 24
    /\ calls["p2"].rurl = calls["p1"].rurl
    /\ cache[CacheKey(calls["p2"].id)].exp = 48


\* C17: a Shorten that has returned made one insert, of the url it was given;
\* when Save succeeded it returns Encode of the id Save returned and no error,
\* when Save failed the empty short code and an error wrapping Save's.
C17_ShortenDelegatesToSave ==
    \A p \in Procs :
        LET c == calls[p]
        IN  (c.op = "Shorten" /\ c.pc = "done") =>
                /\ c.dbq = 1 /\ c.cget = 0 /\ c.cset = 0
                /\ IF c.rerr = Nil
                   THEN /\ c.outCode = Encode(c.rid) /\ c.err = Nil
                        /\ c.rid \in DOMAIN db /\ db[c.rid] = c.url
                   ELSE /\ c.outCode = <<>> /\ c.rid = Zero
                        /\ c.err # c.rerr /\ Tail(c.err) = c.rerr
                        /\ Is(c.err, c.rerr)
                        /\ \E e \in DbErrors : Is(c.rerr, e) /\ Is(c.err, e)

\* A second Shorten returned "2" for the second row, which holds its url.
C17_Witness ==
    \E p \in Procs :
        LET c == calls[p]
        IN  /\ c.op = "Shorten" /\ c.pc = "done" /\ c.rerr = Nil
            /\ c.rid = FromNat(2) /\ c.outCode = <<50>> /\ db[c.rid] = c.url


\* C18: a Redirect whose short code decodes has called Get with the decoded id
\* and returns what Get returned: the url and no error, or the empty url and
\* the very error of Get, ErrNotFound when the store has no row.
C18_RedirectPassesGetResult ==
    \A p \in Procs :
        LET c == calls[p]
            d == Decode(c.code)
        IN  (c.op = "Redirect" /\ c.pc = "done" /\ d.err = Nil) =>
                /\ c.id = d.id /\ c.dbq + c.cget >= 1
                /\ c.err = c.rerr
                /\ c.outUrl = c.rurl
                /\ c.rerr # Nil => c.outUrl = ""
                /\ c.rerr = Nil => c.outUrl = db[c.id]
                /\ c.select = "norows" => c.err = ErrNotFound
                /\ c.select = "error" =>
                       \E e \in DbErrors :
                           c.err = Wrap("failed to get url for id %d", c.id, e)

\* Redirect of "1" returned the wrapped failure of the store query as Get
\* returned it.
C18_Witness ==
    \E p \in Procs :
        LET c == calls[p]
        IN  /\ c.op = "Redirect" /\ c.pc = "done" /\ c.code = <<49>>
            /\ c.select = "error" /\ c.err # Nil /\ c.err # ErrNotFound
            /\ c.err = c.rerr /\ c.outUrl = ""


\* A Get whose store query failed otherwise than with sql.ErrNoRows returned
\* the empty url and the wrapped failure, which is not ErrNotFound, and made
\* no cache write; a Save whose insert failed returned id 0 and the wrapped
\* failure.
C19_FailedCalls ==
    \A p \in Procs :
        LET c == calls[p]
        IN  /\ (c.op = "Get" /\ c.select = "error") =>
                   /\ c.pc = "done" /\ c.rurl = "" /\ c.cset = 0 /\ c.set = "none"
                   /\ \E e \in DbErrors :
                          /\ c.rerr = Wrap("failed to get url for id %d", c.id, e)
                          /\ Is(c.rerr, e)
                   /\ c.rerr # ErrNotFound /\ ~Is(c.rerr, ErrNotFound)
            /\ (c.op = "Save" /\ c.pc = "done" /\ c.rerr # Nil) =>
                   /\ c.rid = Zero
                   /\ \E e \in DbErrors :
                          c.rerr = Wrap("failed to save url", <<>>, e) /\ Is(c.rerr, e)

\* The step in which the store call fails changes neither cache nor store.
C19_FailStep ==
    \A p \in Procs :
        (\/ calls[p].pc = "StoreLookup" /\ calls'[p].select = "error"
         \/ calls[p].pc = "Insert" /\ calls'[p].rerr # Nil)
        => cache' = cache /\ db' = db /\ nextId' = nextId /\ calls'[p].pc = "done"

\* C19: a failure of Get's store query other than no-row gives the empty url
\* and a wrapped store error that is not ErrNotFound, with no cache write; a
\* failure of Save's insert gives id 0 and a wrapped store error.
C19_StoreFailures == []C19_FailedCalls /\ [][C19_FailStep]_vars

\* With a row stored and the cache on, a Get of the row missed the cache and
\* its store query failed, and a Save's insert failed.
C19_Witness ==
    /\ redisOn /\ db # EmptyMap
    /\ calls["p1"].op = "Get" /\ calls["p1"].pc = "done" /\ calls["p1"].id \in DOMAIN db
    /\ calls["p1"].lookup = "miss" /\ calls["p1"].select = "error"
    /\ calls["p2"].op = "Save" /\ calls["p2"].pc = "done" /\ calls["p2"].rerr # Nil


\* The ctx of the call was done at some point of it.
Fired(c) == c.ctx # Nil

\* The error tells the caller that the ctx was done: errors.Is finds ctx.Err()
\* in it, and neither a failure of the store nor ErrNotFound.
SurfacesTimeout(err, ctxErr) ==
    /\ Is(err, ctxErr)
    /\ ~Is(err, ErrNotFound)
    /\ \A e \in DbErrors \cup RedisErrors : ~Is(err, e)

\* C20 as stated: an operation whose ctx was done while it waited on the store
\* or the cache returns an error in which the caller finds ctx.Err().
C20_EveryFiringSurfaces ==
    \A p \in Procs :
        LET c == calls[p]
        IN  (c.pc = "done" /\ Fired(c)) => SurfacesTimeout(c.err, c.ctx)

\* A returned call whose ctx was done before its store call returned made that
\* call all the same, with the done ctx, and nothing after it; it returns the
\* zero value and the wrapped ctx.Err(). One whose ctx was done during the
\* cache write returns the url read from the store and no error.
C20_FiredCalls ==
    \A p \in Procs :
        LET c == calls[p]
        IN  (c.pc = "done" /\ Fired(c)) =>
                IF c.firedAt = "CachePopulate"
                THEN /\ c.err = Nil /\ c.rerr = Nil /\ c.set = "failed" /\ c.logs >= 1
                     /\ c.rurl = db[c.id] /\ c.outUrl = c.rurl
                ELSE /\ SurfacesTimeout(c.err, c.ctx)
                     /\ SurfacesTimeout(c.rerr, c.ctx)
                     /\ c.rurl = "" /\ c.outUrl = "" /\ c.outCode = <<>> /\ c.rid = Zero
                     /\ c.dbq = 1 /\ c.cset = 0
                     /\ c.cget = IF c.firedAt = "CacheLookup" THEN 1 ELSE c.cget

\* Once the ctx is done, every store or cache call of the operation fails with
\* ctx.Err() and leaves the store as it was.
C20_AbortStep ==
    \A p \in Procs :
        (Fired(calls[p]) /\ calls'[p] # calls[p] /\ calls'[p].op = calls[p].op) =>
            /\ db' = db /\ nextId' = nextId
            /\ calls'[p].ctx = calls[p].ctx
            /\ calls'[p].pc \in {"done", "StoreLookup"}
            /\ calls'[p].pc = "StoreLookup" => calls[p].pc = "CacheLookup"

\* C20: each store and cache call of an operation is made with the caller's
\* ctx; once the ctx is done every such call fails with ctx.Err(), and the
\* operation returns after at most two of them. A ctx done before the store
\* call has returned gives an error in which errors.Is finds ctx.Err() and
\* neither ErrNotFound nor a store failure; a ctx done during the cache write
\* of Get gives the url and no error.
C20_DeadlinePropagation ==
    /\ []C20_FiredCalls
    /\ [][C20_AbortStep]_vars
    /\ (Fired(calls["p1"]) ~> calls["p1"].pc = "done")

\* The deadline passed during the cache read of a Redirect of a stored row:
\* the read failed, the store query failed, and Redirect returned the wrapped
\* context.DeadlineExceeded.
C20_Witness ==
    LET c == calls["p1"]
    IN  /\ c.op = "Redirect" /\ c.pc = "done" /\ c.id \in DOMAIN db
        /\ c.ctx = ErrDeadlineExceeded /\ c.firedAt = "CacheLookup"
        /\ c.cget = 1 /\ c.dbq = 1
        /\ c.err = Wrap("failed to get url for id %d", c.id, ErrDeadlineExceeded)


\* C21: a Close that has returned has called Close on the store and, when there
\* is a cache, on the cache, whatever the store's close gave; it returns nil
\* when neither failed, the one failure wrapped when one failed, and one error
\* whose message carries both failures when both failed.
C21_CloseReportsFailures ==
    \A p \in Procs :
        LET c == calls[p]
        IN  (c.op = "Close" /\ c.pc = "done") =>
                /\ c.closed = IF redisOn THEN {"db", "redis"} ELSE {"db"}
                /\ ~redisOn => c.redisErr = Nil
                /\ (c.dbErr = Nil /\ c.redisErr = Nil) => c.err = Nil
                /\ (c.dbErr # Nil /\ c.redisErr = Nil) =>
                       /\ Is(c.err, c.dbErr) /\ Tail(c.err) = c.dbErr
                       /\ c.err[1].msg = "failed to close database"
                /\ (c.dbErr = Nil /\ c.redisErr # Nil) =>
                       /\ Is(c.err, c.redisErr) /\ Tail(c.err) = c.redisErr
                       /\ c.err[1].msg = "failed to close redis"
                /\ (c.dbErr # Nil /\ c.redisErr # Nil) =>
                       /\ Len(c.err) = 1
                       /\ c.err[1].args = <<c.dbErr, c.redisErr>>

\* Both closes failed and Close returned the error that names both.
C21_Witness ==
    \E p \in Procs :
        LET c == calls[p]
        IN  /\ c.op = "Close" /\ c.pc = "done" /\ c.closed = {"db", "redis"}
            /\ c.dbErr \in DbErrors /\ c.redisErr \in RedisErrors
            /\ c.err[1].args = <<c.dbErr, c.redisErr>>


\* id < n, for an n that fits one limb.
Below(id, n) == id[1] = 0 /\ id[2] = 0 /\ id[3] = 0 /\ id[4] < n

\* C22: what Encode returns is not empty and is over the alphabet; it is "0"
\* for 0 and starts with another symbol than '0' for every other id, so that
\* with the round trip of Decode it is the shortest code of the id: one symbol
\* below 62, two from 62 to 3843, at most eleven; Encode(12345) is "3d7".
C22_EncodeMinimal ==
    (codec.job = "id" /\ codec.pc \in {"DecodeBack", "done"}) =>
        LET enc == codec.enc
        IN  /\ Len(enc) >= 1 /\ Len(enc) <= 11
            /\ \A k \in 1..Len(enc) : enc[k] \in AlphabetRunes
            /\ codec.id = Zero => enc = <<48>>
            /\ codec.id # Zero => enc[1] # 48
            /\ Len(enc) = 1 <=> Below(codec.id, 62)
            /\ Len(enc) = 2 <=> (Below(codec.id, 3844) /\ ~Below(codec.id, 62))
            /\ codec.id = FromNat(12345) => enc = <<51, 100, 55>>
            /\ codec.id = FromNat(61) => enc = <<90>>
            /\ codec.id = FromNat(62) => enc = <<49, 48>>
            /\ Decode(enc).id = codec.id

\* Encode(62) gave "10", the first code of two symbols.
C22_Witness ==
    codec.job = "id" /\ codec.pc = "DecodeBack" /\ codec.id = FromNat(62) /\ codec.enc = <<49, 48>>


\* n times '0'.
Zeros(n) == [i \in 1..n |-> 48]

\* C23: with up to MaxPad '0' symbols in front, a string over the alphabet
\* decodes without error to the id it decodes to without them.
C23_LeadingZeros ==
    (codec.job = "string" /\ codec.pc = "done" /\ ~HasInvalidRune(codec.s)) =>
        /\ codec.dec.err = Nil
        /\ \A n \in 1..MaxPad : Decode(Zeros(n) \o codec.s) = codec.dec
        /\ (codec.s # <<>> /\ codec.s[1] = 48) => Decode(Tail(codec.s)) = codec.dec

\* "3d7" after twelve '0' decoded to 12345.
C23_Witness ==
    /\ codec.job = "string" /\ codec.pc = "done"
    /\ codec.s = Zeros(12) \o <<51, 100, 55>>
    /\ codec.dec = [id |-> FromNat(12345), err |-> Nil]

\* C24: Decode of a string over the alphabet never fails; of "lYGhA16ahyg",
\* the code after that of 2^64 - 1, it gives 0, of "ZZZZZZZZZZZ" 62^11 - 1
\* modulo 2^64 and of "100000000000" 62^11 modulo 2^64 = 15143072536417990656.
C24_DecodeWraps ==
    (codec.job = "string" /\ codec.pc = "done" /\ ~HasInvalidRune(codec.s)) =>
        /\ codec.dec.err = Nil
        /\ codec.s = <<108, 89, 71, 104, 65, 49, 54, 97, 104, 121, 103>> =>
               codec.dec.id = Zero
        /\ codec.s = [i \in 1..11 |-> 90] => codec.dec.id = <<53799, 61, 36138, 63487>>
        /\ codec.s = [i \in 1..12 |-> IF i = 1 THEN 49 ELSE 48] =>
               codec.dec.id = <<53799, 61, 36138, 63488>>

\* "ZZZZZZZZZZZ", 62^11 - 1, decoded to 15143072536417990655.
C24_Witness ==
    /\ codec.job = "string" /\ codec.pc = "done" /\ codec.s = [i \in 1..11 |-> 90]
    /\ codec.dec = [id |-> <<53799, 61, 36138, 63487>>, err |-> Nil]


\* A Shorten that succeeds has added a row for its url under an id no row had,
\* also when rows hold that url already, and its code is the code of no
\* earlier row; the earlier rows stay.
C25_ShortenStep ==
    \A p \in Procs :
        (/\ calls[p].op = "Shorten" /\ calls[p].pc # "done"
         /\ calls'[p].pc = "done" /\ calls'[p].err = Nil)
        => LET c == calls'[p]
           IN  /\ c.rid \notin DOMAIN db
               /\ DOMAIN db' = DOMAIN db \cup {c.rid}
               /\ db'[c.rid] = c.url
               /\ c.outCode = Encode(c.rid)
               /\ \A id \in DOMAIN db : db'[id] = db[id] /\ Encode(id) # c.outCode

\* The codes of the rows are pairwise different, and a Redirect of the code of
\* a row whose store query did not fail returns the row's url.
C25_CodesResolve ==
    /\ \A i \in DOMAIN db : \A j \in DOMAIN db : i # j => Encode(i) # Encode(j)
    /\ \A p \in Procs : \A id \in DOMAIN db :
           (/\ calls[p].op = "Redirect" /\ calls[p].pc = "done"
            /\ calls[p].code = Encode(id) /\ calls[p].select # "error")
           => calls[p].err = Nil /\ calls[p].outUrl = db[id]

\* C25: every Shorten of a url adds a row, whether or not rows hold the url;
\* the codes returned are pairwise different and each redirects to the url.
C25_NoDeduplication == []C25_CodesResolve /\ [][C25_ShortenStep]_vars

\* One url was shortened twice; the second code, "2", redirected to it, as
\* the first, "1", would.
C25_Witness ==
    /\ DOMAIN db = {FromNat(1), FromNat(2)} /\ db[FromNat(1)] = db[FromNat(2)]
    /\ \E p \in Procs :
           /\ calls[p].op = "Redirect" /\ calls[p].pc = "done" /\ calls[p].code = <<50>>
           /\ calls[p].outUrl = db[FromNat(1)]


\* A request to RedirectHandler that has been answered.
Answered(c, h) == c.handler = h /\ c.pc = "done"

\* C26 as stated: a RedirectHandler whose Redirect succeeded answers 302 with
\* the original url as the Location.
C26_LocationIsTheURL ==
    \A p \in Procs :
        LET c == calls[p]
        IN  (Answered(c, "RedirectHandler") /\ c.err = Nil) =>
                c.resp.status = 302 /\ c.resp.location = c.outUrl


\* C26 (amended): RedirectHandler answers a Redirect that succeeded with 302,
\* never 301, and a Location that is the original url with every non-ASCII
\* byte percent-escaped (the url itself when it is ASCII); it answers
\* ErrInvalidShortCode with 400 "Invalid short code", ErrNotFound with 404
\* "URL not found", a deadline-exceeded error with 408 "Request timeout" and
\* any other error with 500.
C26_RedirectResponses ==
    \A p \in Procs :
        LET c == calls[p]
        IN  Answered(c, "RedirectHandler") =>
                IF c.err = Nil
                THEN /\ c.resp.status = 302
                     /\ c.resp.status # 301
                     /\ c.resp.location = HexEscapeNonASCII(c.outUrl)
                     /\ (\A i \in 1..Len(c.outUrl) : c.outUrl[i] < 128) =>
                            c.resp.location = c.outUrl
                ELSE /\ c.resp.location = <<>>
                     /\ IF Is(c.err, ErrDeadlineExceeded)
                        THEN c.resp.status = 408 /\ c.resp.text = "Request timeout"
                        ELSE IF Is(c.err, ErrInvalidShortCode)
                        THEN c.resp.status = 400 /\ c.resp.text = "Invalid short code"
                        ELSE IF Is(c.err, ErrNotFound)
                        THEN c.resp.status = 404 /\ c.resp.text = "URL not found"
                        ELSE c.resp.status = 500

\* A RedirectHandler that answered 302 for a url with a non-ASCII rune.
C26_Witness ==
    \E p \in Procs :
        LET c == calls[p]
        IN  /\ Answered(c, "RedirectHandler")
            /\ c.err = Nil
            /\ c.resp.status = 302
            /\ \E i \in 1..Len(c.outUrl) : c.outUrl[i] >= 128
            /\ c.resp.location # c.outUrl


\* strings.HasPrefix(s, prefix)
HasPrefix(s, prefix) ==
    Len(s) >= Len(prefix) /\ SubSeq(s, 1, Len(prefix)) = prefix

\* u is an http:// or https:// URL: it starts with one of the two, in
\* whatever case.
IsHTTPURL(u) ==
    LET l == [i \in 1..Len(u) |-> ToLower(u[i])]
    IN  HasPrefix(l, SchemeHTTP \o <<58, 47, 47>>) \/ HasPrefix(l, SchemeHTTPS \o <<58, 47, 47>>)

\* C27: ShortenHandler answers 400 "Invalid request body" to a body that is
\* not JSON, 400 "URL is required" to a missing or empty url and 400 "Invalid
\* URL format" to a url that is not an http:// or https:// URL, each before
\* the service is called, so that no record is created; a Shorten that
\* succeeded is answered 200 with short_code = Encode(id) and short_url =
\* BaseURL + "/" + short_code; a save that failed with a deadline-exceeded
\* error is answered 408 "Request timeout".
C27_ShortenResponses ==
    \A p \in Procs :
        LET c == calls[p]
            rejected(msg) == /\ c.resp.status = 400
                             /\ c.resp.text = msg
                             /\ c.op = "none"
                             /\ c.dbq = 0
        IN  Answered(c, "ShortenHandler") =>
                /\ ~c.req.ok => rejected("Invalid request body")
                /\ (c.req.ok /\ c.req.url = <<>>) => rejected("URL is required")
                /\ (c.req.ok /\ c.req.url # <<>> /\ ~IsHTTPURL(c.req.url)) =>
                       rejected("Invalid URL format. Must be http:// or https://")
                /\ (c.op = "Shorten" /\ c.err = Nil) =>
                       /\ c.resp.status = 200
                       /\ c.resp.short_code = Encode(c.rid)
                       /\ c.resp.short_url = BaseURL \o <<47>> \o c.resp.short_code
                /\ (c.op = "Shorten" /\ Is(c.rerr, ErrDeadlineExceeded)) =>
                       c.resp.status = 408 /\ c.resp.text = "Request timeout"


\* The call c is a call of Get, made by a caller or by Redirect.
InGet(c) == c.op \in {"Get", "Redirect"} /\ ~Is(c.err, ErrInvalidShortCode)

\* The positions of a call of Get between START and RETURN or FAIL.
GetPositions == {"CacheLookup", "StoreLookup", "CachePopulate"}

\* What a call of Get has done so far fits the state machine.
C28_Counts ==
    \A p \in Procs :
        LET c == calls[p]
        IN  InGet(c) =>
                /\ c.cget <= 1 /\ c.dbq <= 1 /\ c.cset <= 1
                /\ c.dbq = 1 => (c.lookup \in {"miss", "error"} \/ (~redisOn /\ c.cget = 0))
                /\ c.cset = 1 => (c.select = "found" /\ c.dbq = 1)
                /\ c.pc = "done" =>
                       /\ (c.rerr = Nil) = (c.lookup = "hit" \/ c.select = "found")
                       /\ (c.rerr # Nil) = (c.select \in {"norows", "error"})
                       /\ (c.select = "found" /\ redisOn) => c.cset = 1

\* Every step of a call of Get is an edge of the state machine.
C28_Edges ==
    \A p \in Procs :
        LET c == calls[p]
            d == calls'[p]
        IN  /\ (c.pc = "idle" /\ InGet(d)) => d.pc = GetEntry(redisOn)
            /\ (InGet(c) /\ d # c) =>
                   /\ c.pc = "CacheLookup" =>
                          \/ d.lookup = "hit" /\ d.pc = "done" /\ d.rerr = Nil /\ d.dbq = 0
                          \/ d.lookup \in {"miss", "error"} /\ d.pc = "StoreLookup"
                          \/ d.pc = "CacheLookup" /\ d.ctx # c.ctx
                   /\ c.pc = "StoreLookup" =>
                          \/ /\ d.select = "found"
                             /\ IF redisOn THEN d.pc = "CachePopulate"
                                ELSE d.pc = "done" /\ d.rerr = Nil
                          \/ d.select \in {"norows", "error"} /\ d.pc = "done" /\ d.rerr # Nil
                          \/ d.pc = "StoreLookup" /\ d.ctx # c.ctx
                   /\ c.pc = "CachePopulate" =>
                          \/ d.pc = "done" /\ d.rerr = Nil /\ d.cset = 1
                          \/ d.pc = "CachePopulate" /\ d.ctx # c.ctx
                   /\ c.pc = "done" => d.pc = "idle"

\* C28: every call of Get goes START -> CACHE_LOOKUP -> {HIT: RETURN |
\* MISS/ERROR: STORE_LOOKUP} -> {FOUND: CACHE_POPULATE then RETURN |
\* NOT_FOUND: FAIL | STORE_ERROR: FAIL}; it queries the store at most once
\* and only after a cache miss or error (or with no cache), writes the cache
\* at most once and only after the store gave the row, and in the end
\* returns, with the url or with an error and never both.
C28_GetStateMachine ==
    /\ []C28_Counts
    /\ [][C28_Edges]_vars
    /\ \A p \in ServiceProcs :
           (InGet(calls[p]) /\ calls[p].pc \in GetPositions) ~> (calls[p].pc = "done")

\* A call of Get that went through the whole machine: cache miss, row found,
\* cache written, url returned.
C28_Witness ==
    \E p \in Procs :
        LET c == calls[p]
        IN  /\ InGet(c) /\ c.pc = "done"
            /\ c.lookup = "miss" /\ c.select = "found"
            /\ c.cget = 1 /\ c.dbq = 1 /\ c.cset = 1
            /\ c.rerr = Nil


\* C29: whatever the interleaving of the calls of Save and Get, from an empty
\* cache on, every cache entry has the key of an id the store holds and the
\* original_url the store holds for it, and a Get that returned a url
\* returned the one stored for its id.
C29_CacheMirrorsStore ==
    /\ \A k \in DOMAIN cache :
           \E id \in DOMAIN db : k = CacheKey(id) /\ cache[k].val = db[id]
    /\ \A p \in Procs :
           LET c == calls[p]
           IN  (c.op = "Get" /\ c.pc = "done" /\ c.rerr = Nil) =>
                   c.id \in DOMAIN db /\ c.rurl = db[c.id]

\* Both rows are in the store with different urls, both are cached, and a Get
\* of the second returned its url from the cache while the other caller is in
\* the middle of a call.
C29_Witness ==
    /\ Cardinality(DOMAIN cache) = 2
    /\ \E i, j \in DOMAIN db : db[i] # db[j]
    /\ \E p, q \in Procs :
           /\ p # q
           /\ calls[q].pc \in Waiting
           /\ calls[p].op = "Get" /\ calls[p].pc = "done"
           /\ calls[p].lookup = "hit" /\ calls[p].id = FromNat(2)
           /\ calls[p].rurl = db[FromNat(2)]


\* A step keeps every row of the store; a step of a call of Get leaves the
\* store as it is; a step that changes the store is a Save that returned the
\* id of the one row it added, an id no row had.
C30_Step ==
    /\ \A id \in DOMAIN db : id \in DOMAIN db' /\ db'[id] = db[id]
    /\ \A p \in Procs :
           (calls[p].op = "Get" /\ calls'[p] # calls[p]) => db' = db
    /\ db' # db =>
           \E p \in Procs :
               LET c == calls[p]
                   d == calls'[p]
               IN  /\ c.op = "Save" /\ c.pc = "Insert"
                   /\ d.pc = "done" /\ d.rerr = Nil
                   /\ d.rid \notin DOMAIN db
                   /\ DOMAIN db' = DOMAIN db \cup {d.rid}
                   /\ db'[d.rid] = c.url

\* C30: the store is append-only. Get never changes it, Save only adds a row
\* under a fresh id, and an id that maps to a url maps to that url in every
\* later state.
C30_AppendOnly == [][C30_Step]_vars

\* The store holds two rows, and a Get of the first, made after the second
\* was added, read from the store the url the first Save stored.
C30_Witness ==
    /\ Cardinality(DOMAIN db) = 2
    /\ \E p, q \in Procs :
           /\ p # q
           /\ calls[q].op = "Save" /\ calls[q].pc = "done" /\ calls[q].rid = FromNat(2)
           /\ calls[p].op = "Get" /\ calls[p].pc = "done" /\ calls[p].id = FromNat(1)
           /\ calls[p].select = "found" /\ calls[p].rurl = db[FromNat(1)]


\* The call c of Get has returned an error: ErrNotFound or a failure of the
\* store.
GetFailed(c) == c.op = "Get" /\ c.pc = "done" /\ c.rerr # Nil

\* The step in which a Get returns an error leaves the cache as it is, and
\* the call has made no cache write; before that, its cache read and its
\* store query changed no entry either.
C31_FailStep ==
    \A p \in Procs :
        LET c == calls[p]
            d == calls'[p]
        IN  /\ (c.op = "Get" /\ c.pc \in {"CacheLookup", "StoreLookup"} /\ d # c) =>
                   cache' = cache
            /\ (~GetFailed(c) /\ GetFailed(d)) =>
                   /\ cache' = cache
                   /\ d.cset = 0
                   /\ d.select \in {"norows", "error"}

\* A Get of an id returned ErrNotFound, the id has a row by now, and another
\* Get of that id has returned: it returned the row's url, unless its own
\* store query failed.
C31_LaterGet ==
    \A p, q \in Procs :
        LET c == calls[p]
            d == calls[q]
        IN  (/\ p # q
             /\ GetFailed(c) /\ c.rerr = ErrNotFound /\ c.id \in DOMAIN db
             /\ d.op = "Get" /\ d.pc = "done" /\ d.id = c.id) =>
                \/ d.rerr = Nil /\ d.rurl = db[d.id]
                \/ d.select = "error" /\ \E e \in DbErrors : Is(d.rerr, e)

\* C31: a Get that ends in ErrNotFound or in a store error leaves the cache
\* unchanged; when a Get of an id returned ErrNotFound and a later Save was
\* given that id, the next Get of the id returns the saved url.
C31_NoNegativeCaching == []C31_LaterGet /\ [][C31_FailStep]_vars

\* A Get of id 1 returned ErrNotFound after a cache miss; the other caller
\* then saved a url under id 1 and its Get of 1 missed the cache, found the
\* row and returned the url.
C31_Witness ==
    \E p, q \in Procs :
        LET c == calls[p]
            d == calls[q]
        IN  /\ p # q /\ redisOn
            /\ GetFailed(c) /\ c.rerr = ErrNotFound /\ c.id = FromNat(1) /\ c.lookup = "miss"
            /\ c.id \in DOMAIN db
            /\ d.op = "Get" /\ d.pc = "done" /\ d.id = c.id
            /\ d.lookup = "miss" /\ d.select = "found"
            /\ d.rerr = Nil /\ d.rurl = db[d.id]


\* C32 as stated: a Get served from the cache has queried no store and written
\* no cache, and the entry of an id expires 24 hours after the last
\* store-backed read of the id: when such a read has returned in the present
\* hour, the entry there is expires 24 hours from now.
C32_ExpiresAfterLastRead ==
    \A p \in Procs :
        LET c == calls[p]
            key == CacheKey(c.id)
        IN  /\ (c.op = "Get" /\ c.lookup = "hit") => c.dbq = 0 /\ c.cset = 0
            /\ (/\ c.op = "Get" /\ c.pc = "done" /\ c.select = "found"
                /\ c.cset = 1 /\ c.setAt = now
                /\ key \in DOMAIN cache) =>
                   cache[key].exp = now + CacheTTL

\* The step of a Get that finds its entry: the call returns, the cache with
\* its expiries and the store are as before, and the call has made no store
\* query and no cache write.
C32_HitStep ==
    \A p \in Procs :
        LET c == calls[p]
            d == calls'[p]
        IN  (c.op = "Get" /\ c.pc = "CacheLookup" /\ d.lookup = "hit") =>
                /\ d.pc = "done"
                /\ cache' = cache
                /\ db' = db /\ nextId' = nextId
                /\ d.dbq = 0 /\ d.cset = 0

\* An entry is new or changed only by the cache write of a Get that read the
\* row from the store, and then expires 24 hours later; an entry goes only
\* when its expiry has come.
C32_WriteStep ==
    /\ \A k \in DOMAIN cache' :
           (k \notin DOMAIN cache \/ cache'[k] # cache[k]) =>
               /\ cache'[k].exp = now + CacheTTL
               /\ \E p \in Procs :
                      /\ calls[p].pc = "CachePopulate" /\ calls[p].select = "found"
                      /\ k = CacheKey(calls[p].id)
                      /\ calls'[p].cset = 1
    /\ \A k \in DOMAIN cache : k \notin DOMAIN cache' => cache[k].exp <= now'

\* C32 (amended): a Get served from the cache changes nothing, neither the
\* cache nor an expiry nor the store; an entry expires 24 hours after the
\* last cache write of a store-backed read that reached the cache, however
\* many hits there are in between, and a store-backed read whose cache write
\* fails extends nothing.
C32_HitsChangeNothing ==
    /\ [](\A k \in DOMAIN cache : now < cache[k].exp)
    /\ [][C32_HitStep /\ C32_WriteStep]_vars

\* Hours after the entry was written a Get was served from it, and the entry
\* still expires 24 hours after the write.
C32_Witness ==
    \E p \in Procs :
        LET c == calls[p]
            key == CacheKey(c.id)
        IN  /\ c.op = "Get" /\ c.pc = "done" /\ c.lookup = "hit"
            /\ c.dbq = 0 /\ c.cset = 0
            /\ now > 0
            /\ key \in DOMAIN cache /\ cache[key].exp = CacheTTL


\* Ids whose keys are compared: those asked of Get, ids around a change in
\* the number of digits, 2^32, 2^48, 10^19 and the largest uint64.
KeyIds ==
    GetIds \cup {FromNat(9), FromNat(10), FromNat(11), FromNat(100), FromNat(101),
                 FromNat(110), <<0, 1, 0, 0>>, <<1, 0, 0, 0>>,
                 <<35527, 8964, 35304, 0>>, MaxUint64}

\* The key is "shorturl:id:" and the id in decimal, and different ids have
\* different keys.
C33_KeyInjective ==
    /\ \A x, y \in KeyIds : x # y => CacheKey(x) # CacheKey(y)
    /\ \A x \in KeyIds :
           /\ CacheKey(x)[1] = "shorturl:id:"
           /\ \A i \in 1..Len(CacheKey(x)[2]) : CacheKey(x)[2][i] \in 48..57
           /\ (x # Zero) => CacheKey(x)[2][1] # 48
    /\ CacheKey(Zero)[2] = <<48>>
    /\ CacheKey(FromNat(10))[2] = <<49, 48>>
    /\ CacheKey(<<0, 1, 0, 0>>)[2] = <<52, 50, 57, 52, 57, 54, 55, 50, 57, 54>>
    /\ CacheKey(<<35527, 8964, 35304, 0>>)[2] = <<49, 48, 48, 48, 48, 48, 48, 48, 48, 48, 48, 48, 48, 48, 48, 48, 48, 48, 48, 48>>
    /\ CacheKey(MaxUint64)[2] = <<49, 56, 52, 52, 54, 55, 52, 52, 48, 55, 51, 55, 48, 57, 53, 53, 49, 54, 49, 53>>

\* The cache read of Get(X) answers from the entry under X's key and from no
\* other, and the cache write of Get(X) leaves every entry but the one under
\* X's key as it was.
C33_OwnKeyStep ==
    \A p \in Procs :
        LET c == calls[p]
            d == calls'[p]
            key == CacheKey(c.id)
        IN  /\ (c.op = "Get" /\ c.pc = "CacheLookup" /\ d # c) =>
                   /\ d.lookup = "hit" => (key \in DOMAIN cache /\ d.rurl = cache[key].val)
                   /\ d.lookup = "miss" => key \notin DOMAIN cache
                   /\ cache' = cache
            /\ (c.op = "Get" /\ c.pc = "CachePopulate" /\ d # c) =>
                   /\ \A k \in (DOMAIN cache \cup DOMAIN cache') \ {key} :
                          k \in DOMAIN cache /\ k \in DOMAIN cache' /\ cache'[k] = cache[k]
                   /\ \A y \in GetIds \ {c.id} : CacheKey(y) # key
                   /\ key \in DOMAIN cache' => cache'[key].val = db[c.id]

\* C33: the cache key is an injective function of the id alone,
\* "shorturl:id:<decimal id>", and Get uses the key of its id for the read
\* and for the write: Get(X) neither reads nor overwrites the entry of
\* another id.
C33_OwnEntryOnly == []C33_KeyInjective /\ [][C33_OwnKeyStep]_vars

\* With the entry of id 1 in the cache, a Get of id 2 missed, read the store
\* and wrote its own entry; the entry of id 1 is as the store has it.
C33_Witness ==
    \E p \in Procs :
        LET c == calls[p]
        IN  /\ c.op = "Get" /\ c.pc = "done" /\ c.id = FromNat(2)
            /\ c.lookup = "miss" /\ c.select = "found" /\ c.set = "ok"
            /\ CacheKey(FromNat(1)) \in DOMAIN cache
            /\ CacheKey(FromNat(2)) \in DOMAIN cache
            /\ cache[CacheKey(FromNat(1))].val = db[FromNat(1)]
            /\ cache[CacheKey(FromNat(2))].val = db[FromNat(2)]
            /\ db[FromNat(1)] # db[FromNat(2)]


\* The canonical code of a short code: Encode(Decode(c)).
Canonical(c) == Encode(Decode(c).id)

\* Redirect(c) starts as Redirect(Encode(Decode(c))) starts, the code apart:
\* Decode gives no error and the same id, and Get is called with that id.
C34_CallStep ==
    \A p \in ServiceProcs :
        LET c == calls[p]
            d == calls'[p]
        IN  (c.pc = "idle" /\ d.op = "Redirect") =>
                /\ Decode(d.code).err = Nil
                /\ Decode(Canonical(d.code)) = Decode(d.code)
                /\ d.pc = GetEntry(redisOn) /\ d.id = Decode(d.code).id
                /\ RedirectCall(Canonical(d.code), redisOn) = [d EXCEPT !.code = Canonical(d.code)]

\* What a Redirect returned is what Get returned for the id of the canonical
\* code: the url of the row of that id, whatever the code was, and a code
\* with more '0' in front or 2^64 more in value has the same id.
C34_SameRecord ==
    \A p \in ServiceProcs :
        LET c == calls[p]
        IN  (c.op = "Redirect" /\ c.pc = "done") =>
                /\ c.id = Decode(Canonical(c.code)).id
                /\ c.outUrl = c.rurl /\ c.err = c.rerr
                /\ c.err = Nil => (c.id \in DOMAIN db /\ c.outUrl = db[c.id])
                /\ \A k \in 0..MaxPad : Decode([i \in 1..k |-> 48] \o c.code).id = c.id
                /\ \A n \in 0..MaxRecords :
                       c.id = FromNat(n) => Decode(WrapAlias(n)) = [id |-> c.id, err |-> Nil]

\* C34: for every string c over the alphabet Redirect(c) returns what
\* Redirect(Encode(Decode(c))) returns; short codes that differ by leading
\* '0' symbols or by a multiple of 2^64 in value resolve to the same record,
\* so a record has more codes than the one Shorten returned.
C34_Aliasing == []C34_SameRecord /\ [][C34_CallStep]_vars

\* Shorten returned a code, and a Redirect of another code, eleven symbols
\* long and 2^64 more in value, returned the url of that record.
C34_Witness ==
    \E p \in ServiceProcs :
        LET c == calls[p]
        IN  /\ c.op = "Redirect" /\ c.pc = "done" /\ c.err = Nil
            /\ c.code = WrapAlias(1)
            /\ Canonical(c.code) = <<49>>
            /\ c.outUrl = db[FromNat(1)]


\* C35: with no cache configured (r.redis nil) a Get reads no cache and
\* writes none; it queries the store exactly once and returns the url of the
\* row, ErrNotFound when there is no row, or the store's error wrapped.
C35_NoCacheConfigured ==
    ~redisOn =>
        /\ cache = EmptyMap
        /\ \A p \in Procs :
               LET c == calls[p]
               IN  c.op = "Get" =>
                       /\ c.cget = 0 /\ c.cset = 0 /\ c.logs = 0
                       /\ c.lookup = "none" /\ c.set = "none"
                       /\ c.pc \in {"StoreLookup", "done"}
                       /\ c.pc = "StoreLookup" => c.dbq = 0
                       /\ c.pc = "done" =>
                              /\ c.dbq = 1
                              /\ c.select = "found" =>
                                     c.id \in DOMAIN db /\ c.rurl = db[c.id] /\ c.rerr = Nil
                              /\ c.select = "norows" => c.rurl = "" /\ c.rerr = ErrNotFound
                              /\ c.select = "error" =>
                                     /\ c.rurl = ""
                                     /\ \E e \in DbErrors :
                                            /\ c.rerr = Wrap("failed to get url for id %d", c.id, e)
                                            /\ Is(c.rerr, e)
                                     /\ ~Is(c.rerr, ErrNotFound)
                              /\ c.select # "none"

\* Without a cache, a Get of a stored id returned the row's url after one
\* store query, and a second Get of the id queried the store again.
C35_Witness ==
    /\ ~redisOn
    /\ \E p, q \in Procs :
           /\ p # q
           /\ calls[p].op = "Get" /\ calls[p].pc = "done" /\ calls[p].select = "found"
           /\ calls[p].dbq = 1 /\ calls[p].rurl = db[calls[p].id]
           /\ calls[q].op = "Get" /\ calls[q].pc = "done" /\ calls[q].id = calls[p].id
           /\ calls[q].dbq = 1 /\ calls[q].select = "error"

====
